---- MODULE Spec2Model ----
(***************************************************************************)
(* ProductionDeck protocol core: the image-reassembly state machines of    *)
(* the V1, V2 and Module handlers, the output-report parsers of the        *)
(* Module-6 and Module-15/32 handlers, the button-mapping transform and    *)
(* the depth-1 button channel between the button task and the USB task.    *)
(*                                                                         *)
(* A report is a sequence of bytes (0..255).  The source indexes from 0;   *)
(* At(data, i) is the source's data[i].                                    *)
(***************************************************************************)
EXTENDS Integers, Sequences, FiniteSets, TLC

(***************************************************************************)
(* Bounds of the exploration.                                              *)
(***************************************************************************)
\* Capacity of the V1/V2 reassembly buffer explored here.  The handlers only
\* compare lengths with the capacity, so a small one shows every case.
BufCap == 3
\* Capacity of the Module reassembly buffer explored here: room for two
\* 1014-byte chunks and not for three.
ModuleBufCap == 2048
\* Longest payload of a V1/V2 report.
MaxPayload == 2
\* Largest V2 sequence number / Module chunk index the host sends.
MaxSeq == 2
\* Largest key index the host sends.
MaxKey == 1

(***************************************************************************)
(* Program constants.                                                      *)
(***************************************************************************)
IMAGE_BUFFER_SIZE == 1024
OUTPUT_REPORT_IMAGE == 2
IMAGE_COMMAND_V2 == 7
CHUNK_DATA_SIZE == 1014
FULL_REPORT_SIZE == 1024
MODULE_DATA_START == 16

Keys == 0..MaxKey

At(data, i) == data[i + 1]
\* data[from..] of the source
SliceFrom(data, from) == SubSeq(data, from + 1, Len(data))
\* data[from..to] of the source (to exclusive)
Slice(data, from, to) == SubSeq(data, from + 1, to)
Min(a, b) == IF a < b THEN a ELSE b
Fill(n, b) == [i \in 1..n |-> b]
U16Le(lo, hi) == lo + 256 * hi

\* heapless::Vec::extend_from_slice: all or nothing.
ExtendFromSlice(vec, other, cap) ==
    IF Len(vec) + Len(other) > cap
    THEN [ok |-> FALSE, vec |-> vec]
    ELSE [ok |-> TRUE, vec |-> vec \o other]

\* Payloads of V1/V2 reports: every byte string over two byte values, up to
\* MaxPayload bytes, so that the content and order of what is buffered shows.
PayloadBytes == {170, 187}
Payloads == UNION {[1..n -> PayloadBytes] : n \in 0..MaxPayload}

\* Reports no handler recognises as an image report, the empty one included.
RawReports ==
    {<<>>, <<2>>, <<2, 1>>, <<2, 1, 0, 0, 0, 0>>, <<3, 0, 0, 0, 0, 0, 0, 0>>,
     <<2, 9, 0, 0, 0, 0, 0, 0, 0, 0, 0, 0, 0, 0, 0, 0>>}
RawInputs == {[kind |-> "raw", bytes |-> r] : r \in RawReports}

VARIABLES
    family,          \* which handler the dispatcher created
    overflow_checks, \* whether the build traps integer overflow
    v1,              \* V1Handler
    v2,              \* V2Handler
    module,          \* ModuleHandler
    module15_32,     \* Module15_32KeysHandler
    input,           \* the report handed to the handler in the last call
    before,          \* the handler's state when that call was made
    result,          \* what the call returned
    map_call,        \* the arguments of a map_buttons call
    mapping,         \* the ButtonMapping it returned
    debouncer,       \* ButtonDebouncer of the button task, per key
    button_pc,       \* where the button task stands
    new_state,       \* the ButtonState the button task built last
    button_channel,  \* BUTTON_CHANNEL
    usb_pc,          \* where the USB task's button future stands
    button_state,    \* the ButtonState the USB task received last
    hid_report,      \* the input report the USB task wrote last
    host,            \* what kind of traffic the host sends
    usb_command_channel, \* USB_COMMAND_CHANNEL
    display_channel, \* DISPLAY_CHANNEL
    command_pc,      \* where the command processor stands
    display_command, \* the DisplayCommand the command processor is sending
    hid_response,    \* what set_report returned last
    hid_dropped,     \* whether its try_send found the channel full
    current_device_pid, \* CURRENT_DEVICE_PID
    call,            \* the function called last and its arguments
    returned,        \* what it returned
    display_buffer,  \* one ImageBuffer of the display task
    upload,          \* the upload the host's reports describe so far
    display_task     \* display_task: its ImageBuffer per key and what it drew last

protoVars == <<family, overflow_checks, v1, v2, module, module15_32, input, before,
              result>>
mapVars == <<map_call, mapping>>
buttonVars == <<debouncer, button_pc, new_state, button_channel, usb_pc,
                button_state, hid_report>>
commandVars == <<host, usb_command_channel, display_channel, command_pc,
                 display_command, hid_response, hid_dropped>>
pureVars == <<current_device_pid, call, returned>>
vars == <<protoVars, mapVars, buttonVars, commandVars, pureVars, display_buffer, upload,
     display_task>>

\* What the actions of one part of the program leave alone.
exceptProto == <<mapVars, buttonVars, commandVars, pureVars, display_buffer, upload,
     display_task>>
exceptMap == <<protoVars, buttonVars, commandVars, pureVars, display_buffer, upload,
     display_task>>
exceptButtons ==
    <<protoVars, mapVars, commandVars, pureVars, display_buffer, upload,
     display_task>>
exceptCommands ==
    <<protoVars, mapVars, buttonVars, pureVars, display_buffer, upload,
     display_task>>
exceptPure == <<protoVars, mapVars, buttonVars, commandVars, display_buffer, upload,
     display_task>>
exceptDisplay ==
    <<protoVars, mapVars, buttonVars, commandVars, current_device_pid, upload,
     display_task>>

NoInput == [kind |-> "none"]
NoResult == [kind |-> "None", key_id |-> 0, image |-> <<>>]
Incomplete == [kind |-> "Incomplete", key_id |-> 0, image |-> <<>>]
Unhandled == [kind |-> "Unhandled", key_id |-> 0, image |-> <<>>]
Panic == [kind |-> "Panic", key_id |-> 0, image |-> <<>>]
Complete(img) == [kind |-> "Complete", key_id |-> 0, image |-> img]
KeyImageComplete(k, img) == [kind |-> "KeyImageComplete", key_id |-> k, image |-> img]

(***************************************************************************)
(* V2 handler (JPEG devices).                                              *)
(***************************************************************************)
V2New ==
    [image_buffer |-> <<>>, receiving_image |-> FALSE,
     expected_key |-> 0, expected_sequence |-> 0]

V2_reset_keeps_sequence(h) ==
    [h EXCEPT !.image_buffer = <<>>, !.receiving_image = FALSE, !.expected_key = 0]

V2_reset_image_state(h) ==
    [h EXCEPT !.image_buffer = <<>>, !.receiving_image = FALSE, !.expected_key = 0,
              !.expected_sequence = 0]

\* The header fields of a report, or parsed = FALSE when the handler
\* swallows it.
V2Parse(data) ==
    IF Len(data) < 8 THEN [parsed |-> FALSE]
    ELSE IF At(data, 0) = OUTPUT_REPORT_IMAGE /\ At(data, 1) = IMAGE_COMMAND_V2
    THEN [parsed |-> TRUE, key_id |-> At(data, 2), is_last |-> At(data, 3) # 0,
          payload_len |-> U16Le(At(data, 4), At(data, 5)),
          sequence |-> U16Le(At(data, 6), At(data, 7)), data_start |-> 8]
    ELSE IF At(data, 0) = IMAGE_COMMAND_V2 /\ Len(data) >= 7
    THEN [parsed |-> TRUE, key_id |-> At(data, 1), is_last |-> At(data, 2) # 0,
          payload_len |-> U16Le(At(data, 3), At(data, 4)),
          sequence |-> U16Le(At(data, 5), At(data, 6)), data_start |-> 7]
    ELSE [parsed |-> FALSE]

\* "First packet (sequence 0) starts image reception"
V2Start(h, p) ==
    IF p.sequence = 0
    THEN [V2_reset_image_state(h) EXCEPT !.receiving_image = TRUE,
                                         !.expected_key = p.key_id,
                                         !.expected_sequence = 0]
    ELSE h

V2ValidNoSequence(h, p) ==
    h.receiving_image /\ p.key_id = h.expected_key

\* "Validate sequence and key"
V2Valid(h, p) ==
    /\ h.receiving_image
    /\ p.key_id = h.expected_key
    /\ p.sequence = h.expected_sequence

V2CopyLen(p, data) == Min(p.payload_len, Len(data) - p.data_start)

\* The copy into the result's Vec<u8, IMAGE_BUFFER_SIZE>, its error ignored.
CompleteImage(buffer) == ExtendFromSlice(<<>>, buffer, IMAGE_BUFFER_SIZE).vec

V2OnOverflowKeep(h) == h

\* The buffer cannot take the payload: "reset_image_state(); return Incomplete"
V2OnOverflow(h) == V2_reset_image_state(h)

V2_process_image_packet(h, data, cap, checks) ==
    LET p == V2Parse(data) IN
    IF ~p.parsed THEN [h |-> h, result |-> Incomplete]
    ELSE
    LET h1 == V2Start(h, p) IN
    IF ~V2Valid(h1, p) THEN [h |-> V2_reset_image_state(h1), result |-> Incomplete]
    ELSE
    LET copy_len == V2CopyLen(p, data)
        ext == ExtendFromSlice(h1.image_buffer,
                               Slice(data, p.data_start, p.data_start + copy_len), cap)
    IN
    IF copy_len > 0 /\ ~ext.ok
    THEN [h |-> V2OnOverflow(h1), result |-> Incomplete]
    ELSE IF h1.expected_sequence = 65535 /\ checks
    THEN [h |-> h1, result |-> Panic]
    ELSE
    LET buf == IF copy_len > 0 THEN ext.vec ELSE h1.image_buffer
        h2 == [h1 EXCEPT !.image_buffer = buf,
                         !.expected_sequence = (h1.expected_sequence + 1) % 65536]
    IN
    IF p.is_last
    THEN [h |-> V2_reset_image_state(h2), result |-> Complete(CompleteImage(h2.image_buffer))]
    ELSE [h |-> h2, result |-> Incomplete]

\* The reports a host sends to a V2 device: in full form or with the report
\* id stripped by the HID stack.
V2Report(form, key, is_last, plen, seq, payload) ==
    LET hdr == <<IMAGE_COMMAND_V2, key, is_last, plen % 256, plen \div 256,
                 seq % 256, seq \div 256>>
    IN IF form = "full" THEN <<OUTPUT_REPORT_IMAGE>> \o hdr \o payload
       ELSE hdr \o payload

\* The payload_len field may exceed the payload or fall short of it.
V2Inputs ==
    UNION { { [kind |-> "v2", form |-> f, key |-> k, is_last |-> l,
               payload_len |-> n, sequence |-> s, payload |-> pl] :
                f \in {"full", "stripped"}, k \in Keys, l \in {0, 1},
                s \in 0..MaxSeq, n \in {1, Len(pl)} } : pl \in Payloads }

(***************************************************************************)
(* V1 handler (BMP devices).                                               *)
(***************************************************************************)
V1New == [image_buffer |-> <<>>, receiving_image |-> FALSE, expected_key |-> 0]

V1_reset_keeps_receiving(h) ==
    [h EXCEPT !.image_buffer = <<>>, !.expected_key = 0]

V1_reset_image_state(h) ==
    [h EXCEPT !.image_buffer = <<>>, !.receiving_image = FALSE, !.expected_key = 0]

V1Parse(data) ==
    IF Len(data) < 8 THEN [parsed |-> FALSE]
    ELSE IF At(data, 0) = 2 /\ Len(data) >= 6
    THEN [parsed |-> TRUE, packet_num |-> At(data, 2), key_id |-> At(data, 5),
          data_start |-> 8]
    ELSE IF At(data, 0) = 1 /\ Len(data) >= 5
    THEN [parsed |-> TRUE, packet_num |-> At(data, 1), key_id |-> At(data, 4),
          data_start |-> 7]
    ELSE [parsed |-> FALSE]

V1IsSecondNoReceiving(h, p) ==
    p.packet_num = 2 /\ p.key_id = h.expected_key

\* "Second packet completes the image"
V1IsSecond(h, p) ==
    p.packet_num = 2 /\ h.receiving_image /\ p.key_id = h.expected_key

\* The copy into the result's image, which holds a whole reassembly buffer.
V1CompleteImage(buffer) == buffer

V1OnUnexpectedReset(h) == V1_reset_image_state(h)

\* "Ignore unexpected sequences for now"
V1OnUnexpected(h) == h

V1_parse_output_report(h, data, cap) ==
    LET p == V1Parse(data) IN
    IF ~p.parsed THEN [h |-> h, result |-> Unhandled]
    ELSE IF p.packet_num = 1
    THEN LET h1 == [V1_reset_image_state(h) EXCEPT !.receiving_image = TRUE,
                                                   !.expected_key = p.key_id]
             ext == ExtendFromSlice(h1.image_buffer, SliceFrom(data, p.data_start), cap)
         IN IF Len(data) > p.data_start /\ ~ext.ok
            THEN [h |-> V1_reset_image_state(h1), result |-> Unhandled]
            ELSE [h |-> [h1 EXCEPT !.image_buffer =
                            IF Len(data) > p.data_start THEN ext.vec ELSE @],
                  result |-> Unhandled]
    ELSE IF V1IsSecond(h, p)
    THEN LET ext == ExtendFromSlice(h.image_buffer, SliceFrom(data, p.data_start), cap)
         IN IF Len(data) > p.data_start /\ ~ext.ok
            THEN [h |-> V1_reset_image_state(h), result |-> Unhandled]
            ELSE LET buf == IF Len(data) > p.data_start THEN ext.vec
                            ELSE h.image_buffer
                 IN [h |-> V1_reset_image_state(h),
                     result |-> KeyImageComplete(h.expected_key, V1CompleteImage(buf))]
    ELSE [h |-> V1OnUnexpected(h), result |-> Unhandled]

V1Report(form, packet_num, key, payload) ==
    LET hdr == <<1, packet_num, 0, 0, key, 0, 0>>
    IN IF form = "full" THEN <<2>> \o hdr \o payload ELSE hdr \o payload

\* Largest packet number the host sends (1 and 2 are the protocol's).
MaxPacketNum == 3

V1Inputs ==
    { [kind |-> "v1", form |-> f, packet_num |-> n, key |-> k, payload |-> pl] :
        f \in {"full", "stripped"}, n \in 0..MaxPacketNum, k \in Keys,
        pl \in Payloads }

(***************************************************************************)
(* Module handler (chunked upload in 1024-byte output reports).            *)
(***************************************************************************)
ModuleNew ==
    [image_buffer |-> <<>>, receiving_image |-> FALSE, expected_key |-> 0,
     expected_chunk |-> 0, total_chunks |-> 0]

Module_reset_image_state(h) ==
    [h EXCEPT !.image_buffer = <<>>, !.receiving_image = FALSE, !.expected_key = 0,
              !.expected_chunk = 0, !.total_chunks = 0]

\* The division's result "as u8".
calculate_total_chunks(image_size) ==
    ((image_size + CHUNK_DATA_SIZE - 1) \div CHUNK_DATA_SIZE) % 256

ModuleParse(data) ==
    IF Len(data) < 16 THEN [parsed |-> FALSE]
    ELSE IF At(data, 0) = 2 /\ At(data, 1) = 1
    THEN [parsed |-> TRUE, chunk_index |-> At(data, 2), key_index |-> At(data, 5),
          data_start |-> MODULE_DATA_START]
    ELSE [parsed |-> FALSE]

\* "First chunk (index 0) starts image reception"
ModuleStart(h, p, data) ==
    IF p.chunk_index = 0
    THEN [Module_reset_image_state(h) EXCEPT
            !.receiving_image = TRUE,
            !.expected_key = p.key_index,
            !.expected_chunk = 0,
            !.total_chunks = calculate_total_chunks((Len(data) - p.data_start) * 2)]
    ELSE h

ModuleValidNoChunk(h, p) ==
    h.receiving_image /\ p.key_index = h.expected_key

\* "Validate chunk sequence and key"
ModuleValid(h, p) ==
    /\ h.receiving_image
    /\ p.key_index = h.expected_key
    /\ p.chunk_index = h.expected_chunk

ModuleCopyLen(p, data) == Min(Len(data) - p.data_start, CHUNK_DATA_SIZE)

\* "Check if this is the last chunk (rough estimation)"; total_chunks - 1
\* wraps to 255 in a build that does not trap overflow.
ModuleIsLast(h, p, copy_len) ==
    \/ p.chunk_index >= (h.total_chunks + 255) % 256
    \/ copy_len < CHUNK_DATA_SIZE

Module_process_image_packet(h, data, cap, checks) ==
    LET p == ModuleParse(data) IN
    IF ~p.parsed THEN [h |-> h, result |-> Incomplete]
    ELSE
    LET h1 == ModuleStart(h, p, data) IN
    IF ~ModuleValid(h1, p)
    THEN [h |-> Module_reset_image_state(h1), result |-> Incomplete]
    ELSE
    LET copy_len == ModuleCopyLen(p, data)
        ext == ExtendFromSlice(h1.image_buffer,
                               Slice(data, p.data_start, p.data_start + copy_len), cap)
    IN
    IF copy_len > 0 /\ ~ext.ok
    THEN [h |-> Module_reset_image_state(h1), result |-> Incomplete]
    ELSE IF checks /\ (h1.expected_chunk = 255 \/ h1.total_chunks = 0)
    THEN [h |-> h1, result |-> Panic]
    ELSE
    LET buf == IF copy_len > 0 THEN ext.vec ELSE h1.image_buffer
        h2 == [h1 EXCEPT !.image_buffer = buf,
                         !.expected_chunk = (h1.expected_chunk + 1) % 256]
    IN
    IF ModuleIsLast(h2, p, copy_len)
    THEN [h |-> Module_reset_image_state(h2),
          result |-> Complete(CompleteImage(h2.image_buffer))]
    ELSE [h |-> h2, result |-> Incomplete]

\* [0x02, 0x01, chunk_index, 0x00, show_flag, key_index, reserved[10], data...]
ModuleReport(chunk, key, len, fill) ==
    <<2, 1, chunk, 0, 1, key>> \o Fill(10, 0) \o Fill(len - MODULE_DATA_START, fill)

\* Report lengths the host sends: header only, the descriptor's 1024, a
\* header plus one 1014-byte chunk, and one byte more than that.
ModuleReportLens == {16, 1024, 1030, 1031}

\* Chunks of even index carry 0xAA bytes and chunks of odd index 0xBB bytes.
ModuleFill(c) == IF c % 2 = 0 THEN 170 ELSE 187

ModuleInputs ==
    { [kind |-> "module", chunk_index |-> c, key |-> k, len |-> n,
       fill |-> ModuleFill(c)] :
        c \in 0..MaxSeq, k \in Keys, n \in ModuleReportLens }

(***************************************************************************)
(* Module-6 and Module-15/32 handlers: image upload is not implemented.    *)
(***************************************************************************)
\* Every index and slice of the function is bounds-checked by the language.
Module6_parse_output_report(data) ==
    IF Len(data) < 2 THEN Panic
    ELSE IF At(data, 0) = 2 /\ At(data, 1) = 1 /\ Len(data) < 16 THEN Panic
    ELSE Unhandled

\* Module15_32KeysHandler::new
Module15_32New == [model |-> "Module15"]

Module15_32_completes_key_image(h, data) ==
    [h |-> h,
     result |-> IF Len(data) >= 8 /\ At(data, 0) = 2 /\ At(data, 1) = 7 /\ At(data, 3) = 1
                THEN Complete(SliceFrom(data, 8))
                ELSE Incomplete]

\* Module15_32KeysHandler::process_image_packet: `_data` is not read and
\* self is not written.
Module15_32_process_image_packet(h, data) == [h |-> h, result |-> Incomplete]

InputBytes(i) ==
    CASE i.kind = "raw" -> i.bytes
      [] i.kind = "v2" ->
           V2Report(i.form, i.key, i.is_last, i.payload_len, i.sequence, i.payload)
      [] i.kind = "v1" -> V1Report(i.form, i.packet_num, i.key, i.payload)
      [] i.kind = "module" -> ModuleReport(i.chunk_index, i.key, i.len, i.fill)

Halted == result.kind = "Panic"

V2Receive ==
    /\ family = "V2"
    /\ input = NoInput
    /\ \E i \in V2Inputs \cup RawInputs :
         LET r == V2_process_image_packet(v2, InputBytes(i), BufCap, overflow_checks) IN
         /\ input' = i
         /\ before' = v2
         /\ v2' = r.h
         /\ result' = r.result
    /\ UNCHANGED <<family, overflow_checks, v1, module, module15_32, exceptProto>>

V1Receive ==
    /\ family = "V1"
    /\ input = NoInput
    /\ \E i \in V1Inputs \cup RawInputs :
         LET r == V1_parse_output_report(v1, InputBytes(i), BufCap) IN
         /\ input' = i
         /\ before' = v1
         /\ v1' = r.h
         /\ result' = r.result
    /\ UNCHANGED <<family, overflow_checks, v2, module, module15_32, exceptProto>>

ModuleReceive ==
    /\ family = "Module"
    /\ input = NoInput
    /\ \E i \in ModuleInputs \cup RawInputs :
         LET r == Module_process_image_packet(module, InputBytes(i), ModuleBufCap,
                                              overflow_checks) IN
         /\ input' = i
         /\ before' = module
         /\ module' = r.h
         /\ result' = r.result
    /\ UNCHANGED <<family, overflow_checks, v1, v2, module15_32, exceptProto>>

Module6Receive ==
    /\ family = "Module6Keys"
    /\ input = NoInput
    /\ \E i \in ModuleInputs \cup RawInputs :
         /\ input' = i
         /\ result' = Module6_parse_output_report(InputBytes(i))
    /\ UNCHANGED <<family, overflow_checks, v1, v2, module, module15_32, before,
                   exceptProto>>

\* Output reports of the Module 15/32 image commands: 0x07 (key image, the
\* V2 report layout), 0x08 (full screen) and 0x09 (boot logo).
Module15_32ImageInputs ==
    V2Inputs \cup {[kind |-> "raw", bytes |-> <<2, c, 0, 1, 2, 0, 0, 0, 170, 187>>] :
                     c \in {8, 9}}

Module15_32Receive ==
    /\ family = "Module15_32Keys"
    /\ input = NoInput
    /\ \E i \in ModuleInputs \cup RawInputs \cup Module15_32ImageInputs :
         LET r == Module15_32_process_image_packet(module15_32, InputBytes(i)) IN
         /\ input' = i
         /\ before' = module15_32
         /\ module15_32' = r.h
         /\ result' = r.result
    /\ UNCHANGED <<family, overflow_checks, v1, v2, module, exceptProto>>

\* The call has returned to the dispatcher's caller, which is done with the
\* report and the result; the handler keeps its state for the next report.
\* A call that panicked never returns.
ProcessReturn ==
    /\ input # NoInput
    /\ ~Halted
    /\ input' = NoInput
    /\ before' = NoInput
    /\ result' = NoResult
    /\ UNCHANGED <<family, overflow_checks, v1, v2, module, module15_32, exceptProto>>

(***************************************************************************)
(* Button mapping (V1Handler::map_buttons, V2Handler::map_buttons).        *)
(* A [bool; 32] is a function on 0..31; the slice of physical buttons is   *)
(* a sequence.                                                             *)
(***************************************************************************)
MAX_BUTTONS == 32
\* Widest and tallest layout explored (the XL is 8 x 4).
MaxCols == 8
MaxRows == 4
\* Most keys held down at once in a physical reading.
MaxPressed == 1

ButtonIndices == 0..(MAX_BUTTONS - 1)
AllReleased == [i \in ButtonIndices |-> FALSE]

\* The physical_buttons slice with the keys of `pressed` down.
PhysicalOf(pressed) == [i \in 1..MAX_BUTTONS |-> (i - 1) \in pressed]

ReversedColSame(cols, col) == col

\* "let reversed_col = cols - 1 - col"
ReversedCol(cols, col) == cols - 1 - col

MappedIdx(physical_idx, cols, left_to_right) ==
    IF left_to_right THEN physical_idx
    ELSE LET row == physical_idx \div cols
             col == physical_idx % cols
         IN row * cols + ReversedCol(cols, col)

\* The loop over physical_buttons.iter().take(total_keys).enumerate(), from
\* physical_idx on; n is the number of items the iterator yields.
RECURSIVE MapLoop(_, _, _, _, _, _)
MapLoop(mapped_buttons, physical_buttons, physical_idx, n, cols, left_to_right) ==
    IF physical_idx >= n THEN mapped_buttons
    ELSE LET mapped_idx == MappedIdx(physical_idx, cols, left_to_right)
             pressed == At(physical_buttons, physical_idx)
         IN MapLoop(IF mapped_idx < MAX_BUTTONS
                    THEN [mapped_buttons EXCEPT ![mapped_idx] = pressed]
                    ELSE mapped_buttons,
                    physical_buttons, physical_idx + 1, n, cols, left_to_right)

V1_map_buttons(physical_buttons, cols, rows, left_to_right) ==
    LET total_keys == cols * rows IN
    [mapped_buttons |-> MapLoop(AllReleased, physical_buttons, 0,
                                Min(Len(physical_buttons), total_keys),
                                cols, left_to_right),
     active_count |-> total_keys]

V2_map_buttons(physical_buttons, cols, rows, left_to_right) ==
    LET total_keys == cols * rows IN
    [mapped_buttons |-> MapLoop(AllReleased, physical_buttons, 0,
                                Min(Len(physical_buttons), total_keys),
                                cols, left_to_right),
     active_count |-> total_keys]

NoCall == [kind |-> "none"]
NoMapping == [kind |-> "none"]

\* Sets of at most n keys.
RECURSIVE PressedSets(_)
PressedSets(n) ==
    IF n = 0 THEN {{}}
    ELSE LET fewer == PressedSets(n - 1)
         IN fewer \cup {s \cup {i} : s \in fewer, i \in ButtonIndices}

\* The calls explored: every layout of at most 32 keys, both directions, and
\* readings with few keys down or all of them.
MapCalls ==
    { [kind |-> "map", family |-> f, cols |-> c, rows |-> r,
       left_to_right |-> d, pressed |-> s] :
        f \in {"V1", "V2"}, c \in 0..MaxCols, r \in 0..MaxRows, d \in BOOLEAN,
        s \in PressedSets(MaxPressed) \cup {ButtonIndices} }

V1MapButtons ==
    /\ map_call.kind = "map"
    /\ map_call.family = "V1"
    /\ mapping = NoMapping
    /\ mapping' = V1_map_buttons(PhysicalOf(map_call.pressed), map_call.cols,
                                 map_call.rows, map_call.left_to_right)
    /\ UNCHANGED <<map_call, exceptMap>>

V2MapButtons ==
    /\ map_call.kind = "map"
    /\ map_call.family = "V2"
    /\ mapping = NoMapping
    /\ mapping' = V2_map_buttons(PhysicalOf(map_call.pressed), map_call.cols,
                                 map_call.rows, map_call.left_to_right)
    /\ UNCHANGED <<map_call, exceptMap>>

(***************************************************************************)
(* Button task, button channel and the USB task's button future.           *)
(***************************************************************************)
BUTTON_CHANNEL_DEPTH == 1
BUTTON_DEBOUNCE_MS == 20
BUTTON_SCAN_RATE_HZ == 100
BUTTON_REPORT_SIZE == 16
\* Keys of the device explored (active_keys).
ActiveKeys == 2

ActiveKeyIndices == 0..(ActiveKeys - 1)

\* "Duration::from_millis(1000 / BUTTON_SCAN_RATE_HZ)"
scan_interval == 1000 \div BUTTON_SCAN_RATE_HZ

\* Time from one scan to the next: the scan interval, or longer when the task
\* was held up; a key's age saturates at the debounce time.
ScanGaps == {scan_interval, BUTTON_DEBOUNCE_MS}

\* ButtonState::new
ButtonState_new(active_count) ==
    [buttons |-> AllReleased, changed |-> FALSE,
     active_count |-> Min(active_count, MAX_BUTTONS)]

\* ButtonState::set_button
set_button(st, button_index, pressed) ==
    IF button_index < st.active_count /\ st.buttons[button_index] # pressed
    THEN [st EXCEPT !.buttons[button_index] = pressed, !.changed = TRUE]
    ELSE st

\* ButtonDebouncer::new, one key: `since` is now - last_change in ms, up to
\* BUTTON_DEBOUNCE_MS; `updated` is what update returned for the key at the
\* last scan.
DebounceNew == [current |-> FALSE, raw |-> FALSE, since |-> 0, updated |-> FALSE]

Elapse(deb, ms) ==
    [k \in DOMAIN deb |-> [deb[k] EXCEPT !.since = Min(@ + ms, BUTTON_DEBOUNCE_MS)]]

\* A debouncer that takes the raw reading at once.
ButtonDebouncer_update_at_once(state, raw_state) ==
    [state |-> [state EXCEPT !.raw = raw_state, !.current = raw_state,
                             !.since = IF raw_state # state.raw THEN 0 ELSE @],
     changed |-> state.current # raw_state]

\* ButtonDebouncer::update for one key: the key's new state and the result.
ButtonDebouncer_update(state, raw_state) ==
    LET s1 == IF raw_state # state.raw
              THEN [state EXCEPT !.raw = raw_state, !.since = 0]
              ELSE state
    IN IF s1.since >= BUTTON_DEBOUNCE_MS
       THEN [state |-> [s1 EXCEPT !.current = s1.raw], changed |-> s1.current # s1.raw]
       ELSE [state |-> s1, changed |-> FALSE]

\* "new_state.set_button(i, debouncer.get_state(i))" for i in from..active_keys
RECURSIVE SetButtons(_, _, _)
SetButtons(st, deb, i) ==
    IF i >= ActiveKeys THEN st
    ELSE SetButtons(set_button(st, i, deb[i].current), deb, i + 1)

\* embassy Channel::send polled with the channel full: the sender waits.
SendWhenFull(channel, msg) == [sent |-> FALSE, channel |-> channel]

\* Channel::send polled once.
ChannelSend(channel, msg) ==
    IF Len(channel) < BUTTON_CHANNEL_DEPTH
    THEN [sent |-> TRUE, channel |-> Append(channel, msg)]
    ELSE SendWhenFull(channel, msg)

\* One turn of the task's loop up to its first wait: scan, debounce, and
\* send when a key changed.
ButtonScan ==
    /\ button_pc = "scan"
    /\ \E raw_states \in [ActiveKeyIndices -> BOOLEAN], gap \in ScanGaps :
         LET aged == Elapse(debouncer, gap)
             upd == [k \in ActiveKeyIndices |->
                        ButtonDebouncer_update(aged[k], raw_states[k])]
             deb == [k \in ActiveKeyIndices |->
                        [upd[k].state EXCEPT !.updated = upd[k].changed]]
             changed == \E k \in ActiveKeyIndices : upd[k].changed
             st == SetButtons(ButtonState_new(ActiveKeys), deb, 0)
             snd == ChannelSend(button_channel, [st EXCEPT !.changed = TRUE])
         IN /\ debouncer' = deb
            /\ IF changed
               THEN /\ new_state' = [st EXCEPT !.changed = TRUE]
                    /\ button_channel' = snd.channel
                    /\ button_pc' = IF snd.sent THEN "scan" ELSE "send"
               ELSE /\ new_state' = st
                    /\ UNCHANGED <<button_channel, button_pc>>
    /\ UNCHANGED <<exceptButtons, usb_pc, button_state, hid_report>>

\* The task waiting in "sender.send(new_state).await" is woken.
ButtonSend ==
    /\ button_pc = "send"
    /\ LET snd == ChannelSend(button_channel, new_state) IN
         /\ snd.sent
         /\ button_channel' = snd.channel
    /\ button_pc' = "scan"
    /\ UNCHANGED <<exceptButtons, debouncer, new_state, usb_pc, button_state,
                   hid_report>>

\* "Convert button state to HID report format (Report ID 0x01, 16 bytes)"
ButtonReport(bs) ==
    [i \in 1..BUTTON_REPORT_SIZE |->
        IF i = 1 THEN 1 ELSE IF bs.buttons[i - 2] THEN 1 ELSE 0]

NoButtonState == [kind |-> "none"]

\* "Send initial button state report (all buttons released)"
UsbInitialReport ==
    /\ usb_pc = "init"
    /\ hid_report' = [i \in 1..BUTTON_REPORT_SIZE |-> IF i = 1 THEN 1 ELSE 0]
    /\ usb_pc' = "receive"
    /\ UNCHANGED <<exceptButtons, debouncer, button_pc, new_state,
                   button_channel, button_state>>

\* A button report sender that is polled only while the command processor
\* is not waiting in its send.
UsbButtonReportAfterCommands ==
    /\ command_pc = "receive"
    /\ usb_pc = "receive"
    /\ button_channel # <<>>
    /\ button_state' = Head(button_channel)
    /\ button_channel' = Tail(button_channel)
    /\ hid_report' = ButtonReport(Head(button_channel))
    /\ UNCHANGED <<exceptButtons, debouncer, button_pc, new_state, usb_pc>>

\* "receiver.receive().await" and the report written for what it returned.
UsbButtonReport ==
    /\ usb_pc = "receive"
    /\ button_channel # <<>>
    /\ button_state' = Head(button_channel)
    /\ button_channel' = Tail(button_channel)
    /\ hid_report' = ButtonReport(Head(button_channel))
    /\ UNCHANGED <<exceptButtons, debouncer, button_pc, new_state, usb_pc>>

(***************************************************************************)
(* HID request handler, USB command channel, command processor and         *)
(* display channel.                                                        *)
(***************************************************************************)
USB_COMMAND_CHANNEL_DEPTH == 4
DISPLAY_CHANNEL_DEPTH == 8
STREAMDECK_KEYS == 6
FEATURE_REPORT_RESET_V1 == 11
FEATURE_REPORT_BRIGHTNESS_V1 == 5
FEATURE_REPORT_V2_COMMANDS == 3

\* UsbCommand
UsbReset == [cmd |-> "Reset"]
UsbSetBrightness(b) == [cmd |-> "SetBrightness", brightness |-> b]
UsbImageData(k, d) == [cmd |-> "ImageData", key_id |-> k, data |-> d]

\* DisplayCommand
DisplayClearAll == [cmd |-> "ClearAll"]
DisplaySetBrightness(b) == [cmd |-> "SetBrightness", brightness |-> b]
DisplayImage(k, d) == [cmd |-> "DisplayImage", key_id |-> k, data |-> d]

NoCommand == [some |-> FALSE]
SomeCommand(c) == [some |-> TRUE, cmd |-> c]

\* The command handle_feature_report hands to try_send, if any.
Hid_handle_feature_report(report_id, data) ==
    IF report_id = 0 THEN NoCommand
    ELSE IF report_id = FEATURE_REPORT_RESET_V1
    THEN IF Len(data) >= 2 /\ At(data, 1) = 99 THEN SomeCommand(UsbReset)
         ELSE NoCommand
    ELSE IF report_id = FEATURE_REPORT_V2_COMMANDS
    THEN IF Len(data) < 2 THEN NoCommand
         ELSE IF At(data, 1) = 2 THEN SomeCommand(UsbReset)
         ELSE IF At(data, 1) = 8 /\ Len(data) >= 3
         THEN SomeCommand(UsbSetBrightness(At(data, 2)))
         ELSE NoCommand
    ELSE IF report_id = FEATURE_REPORT_BRIGHTNESS_V1
    THEN IF /\ Len(data) >= 6
            /\ At(data, 1) = 85 /\ At(data, 2) = 170
            /\ At(data, 3) = 209 /\ At(data, 4) = 1
         THEN SomeCommand(UsbSetBrightness(At(data, 5)))
         ELSE NoCommand
    ELSE NoCommand

\* The command handle_output_report hands to try_send, if any.
Hid_handle_output_report(data) ==
    IF Len(data) < 8 THEN NoCommand
    ELSE IF At(data, 0) = OUTPUT_REPORT_IMAGE /\ At(data, 1) = IMAGE_COMMAND_V2
    THEN LET key_id == At(data, 2)
             image_data == ExtendFromSlice(<<>>, data, IMAGE_BUFFER_SIZE)
         IN IF key_id < STREAMDECK_KEYS /\ image_data.ok
            THEN SomeCommand(UsbImageData(key_id, image_data.vec))
            ELSE NoCommand
    ELSE NoCommand

\* The match of set_report on the report id.
HidDecode(req) ==
    IF req.id = "Feature" THEN Hid_handle_feature_report(req.report_id, req.data)
    ELSE IF req.id = "Out" THEN Hid_handle_output_report(req.data)
    ELSE NoCommand

TrySendWhenFullOverwrites(channel, msg) ==
    [ok |-> TRUE, channel |-> SubSeq(channel, 1, Len(channel) - 1) \o <<msg>>]

\* embassy Channel::try_send on a full channel: Err(Full), nothing queued.
TrySendWhenFull(channel, msg) == [ok |-> FALSE, channel |-> channel]

\* Channel::try_send
TrySend(channel, msg, depth) ==
    IF Len(channel) < depth
    THEN [ok |-> TRUE, channel |-> Append(channel, msg)]
    ELSE TrySendWhenFull(channel, msg)

\* Requests of the host.  `name` says what the host built; the bytes are
\* what the handler sees.
HidRequest(name, id, report_id, data) ==
    [name |-> name, id |-> id, report_id |-> report_id, data |-> data]

OtherFeatureRequests ==
    { HidRequest("other", "Feature", 0, <<0>>),
      HidRequest("other", "Feature", FEATURE_REPORT_RESET_V1, <<11, 0>>),
      HidRequest("other", "Feature", FEATURE_REPORT_V2_COMMANDS, <<3>>),
      HidRequest("other", "Feature", FEATURE_REPORT_V2_COMMANDS, <<3, 9>>),
      HidRequest("other", "Feature", FEATURE_REPORT_V2_COMMANDS, <<3, 8>>),
      HidRequest("other", "Feature", FEATURE_REPORT_BRIGHTNESS_V1, <<5, 85, 170, 209, 2, 100>>),
      HidRequest("other", "Feature", 7, <<>>),
      HidRequest("other", "In", 1, <<>>) }

ResetRequests ==
    { HidRequest("reset_v1", "Feature", FEATURE_REPORT_RESET_V1, <<11, 99>>),
      HidRequest("reset_v2", "Feature", FEATURE_REPORT_V2_COMMANDS, <<3, 2>>) }
    \cup OtherFeatureRequests

BrightnessRequests ==
    { HidRequest("brightness_v2", "Feature", FEATURE_REPORT_V2_COMMANDS, <<3, 8, 100>>),
      HidRequest("brightness_v1", "Feature", FEATURE_REPORT_BRIGHTNESS_V1,
                 <<5, 85, 170, 209, 1, 100>>) }
    \cup OtherFeatureRequests

\* An image report as the host writes it: the 8-byte V2 header and the payload.
ImageReport(key, payload) == V2Report("full", key, 1, Len(payload), 0, payload)

ImageRequests ==
    { HidRequest("image", "Out", OUTPUT_REPORT_IMAGE, ImageReport(k, <<170 + k>>)) :
        k \in Keys }
    \cup
    { HidRequest("reset_v1", "Feature", FEATURE_REPORT_RESET_V1, <<11, 99>>),
      HidRequest("other", "Out", OUTPUT_REPORT_IMAGE,
                 ImageReport(STREAMDECK_KEYS, <<170>>)),
      HidRequest("other", "Out", OUTPUT_REPORT_IMAGE,
                 ImageReport(0, Fill(IMAGE_BUFFER_SIZE, 170))),
      HidRequest("other", "Out", OUTPUT_REPORT_IMAGE, <<2, 7>>),
      HidRequest("other", "Out", OUTPUT_REPORT_IMAGE, <<2, 1, 0, 0, 0, 0, 0, 0, 170>>),
      HidRequest("other", "Out", OUTPUT_REPORT_IMAGE, <<>>) }

\* The host resets the device, sets its brightness, or sends images mixed
\* with resets.
Hosts == {"reset", "brightness", "images"}
HidRequests(h) ==
    IF h = "reset" THEN ResetRequests
    ELSE IF h = "brightness" THEN BrightnessRequests
    ELSE ImageRequests

\* StreamDeckHidHandler::set_report for one request.
HidSetReportOf(req) ==
    /\ LET decoded == HidDecode(req)
           sent == TrySend(usb_command_channel, decoded.cmd, USB_COMMAND_CHANNEL_DEPTH)
       IN IF decoded.some
          THEN /\ usb_command_channel' = sent.channel
               /\ hid_dropped' = ~sent.ok
          ELSE /\ usb_command_channel' = usb_command_channel
               /\ hid_dropped' = FALSE
    /\ hid_response' = "Accepted"
    /\ UNCHANGED <<exceptCommands, host, command_pc, display_command,
                   display_channel>>

HidSetReport == \E req \in HidRequests(host) : HidSetReportOf(req)

NoDisplayCommand == [cmd |-> "none"]

\* What the command processor sends to the display for a USB command; the
\* ImageData arm is commented out in the source, so ImageData falls to "_".
Forward(command) ==
    IF command.cmd = "Reset" THEN SomeCommand(DisplayClearAll)
    ELSE IF command.cmd = "SetBrightness"
    THEN SomeCommand(DisplaySetBrightness(command.brightness))
    ELSE NoCommand

\* command_fut: "receiver.receive().await" and the match on the command, up
\* to the send's first poll.
CommandReceive ==
    /\ command_pc = "receive"
    /\ usb_command_channel # <<>>
    /\ usb_command_channel' = Tail(usb_command_channel)
    /\ LET fwd == Forward(Head(usb_command_channel)) IN
         IF fwd.some /\ Len(display_channel) < DISPLAY_CHANNEL_DEPTH
         THEN /\ display_channel' = Append(display_channel, fwd.cmd)
              /\ UNCHANGED <<command_pc, display_command>>
         ELSE IF fwd.some
         THEN /\ command_pc' = "send"
              /\ display_command' = fwd.cmd
              /\ UNCHANGED display_channel
         ELSE UNCHANGED <<command_pc, display_command, display_channel>>
    /\ UNCHANGED <<exceptCommands, host, hid_response, hid_dropped>>

\* command_fut waiting in "DISPLAY_CHANNEL.sender().send(..).await" is woken.
CommandSend ==
    /\ command_pc = "send"
    /\ Len(display_channel) < DISPLAY_CHANNEL_DEPTH
    /\ display_channel' = Append(display_channel, display_command)
    /\ command_pc' = "receive"
    /\ display_command' = NoDisplayCommand
    /\ UNCHANGED <<exceptCommands, host, usb_command_channel,
                   hid_response, hid_dropped>>

\* display_task: "receiver.receive().await"; what the controller then draws
\* is outside the model.
DisplayReceive ==
    /\ display_channel # <<>>
    /\ display_channel' = Tail(display_channel)
    /\ UNCHANGED <<exceptCommands, host, usb_command_channel,
                   command_pc, display_command, hid_response, hid_dropped>>

(***************************************************************************)
(* Device table and device selection.                                      *)
(***************************************************************************)
None == [some |-> FALSE]
Some(x) == [some |-> TRUE, value |-> x]

Devices ==
    {"Mini", "RevisedMini", "Original", "OriginalV2", "Xl", "Plus",
     "Module6", "Module15", "Module32"}

\* Device::from_pid
Device_from_pid(pid) ==
    CASE pid = 99 -> Some("Mini")
      [] pid = 128 -> Some("RevisedMini")
      [] pid = 96 -> Some("Original")
      [] pid = 109 -> Some("OriginalV2")
      [] pid = 108 -> Some("Xl")
      [] pid = 132 -> Some("Plus")
      [] pid = 184 -> Some("Module6")
      [] pid = 185 -> Some("Module15")
      [] pid = 186 -> Some("Module32")
      [] OTHER -> None

\* Device::supported_pids
Device_supported_pids == <<96, 99, 128, 109, 108, 132, 184, 185, 186>>

\* Device::pid
Device_pid(d) ==
    CASE d = "Mini" -> 99
      [] d = "RevisedMini" -> 128
      [] d = "Original" -> 96
      [] d = "OriginalV2" -> 109
      [] d = "Xl" -> 108
      [] d = "Plus" -> 132
      [] d = "Module6" -> 184
      [] d = "Module15" -> 185
      [] d = "Module32" -> 186

UsbConfig(pid, product_name, protocol) ==
    [vid |-> 4057, pid |-> pid, product_name |-> product_name,
     manufacturer |-> "Elgato Systems", protocol |-> protocol]

\* Device::usb_config
Device_usb_config(d) ==
    CASE d = "Mini" -> UsbConfig(99, "Stream Deck Mini", "V1")
      [] d = "RevisedMini" -> UsbConfig(128, "Stream Deck Mini", "V1")
      [] d = "Original" -> UsbConfig(96, "Stream Deck", "V1")
      [] d = "OriginalV2" -> UsbConfig(109, "Stream Deck", "V2")
      [] d = "Xl" -> UsbConfig(108, "Stream Deck XL", "V2")
      [] d = "Plus" -> UsbConfig(128, "Stream Deck Plus", "V2")
      [] d = "Module6" -> UsbConfig(184, "Stream Deck Module 6 Keys", "Module")
      [] d = "Module15" -> UsbConfig(185, "Stream Deck Module 15 Keys", "Module")
      [] d = "Module32" -> UsbConfig(186, "Stream Deck Module 32 Keys", "Module")

ButtonLayout_new_sum(cols, rows, left_to_right) ==
    [cols |-> cols, rows |-> rows, total_keys |-> cols + rows,
     left_to_right |-> left_to_right]

\* ButtonLayout::new
ButtonLayout_new(cols, rows, left_to_right) ==
    [cols |-> cols, rows |-> rows, total_keys |-> cols * rows,
     left_to_right |-> left_to_right]

\* Device::button_layout
Device_button_layout(d) ==
    CASE d \in {"Mini", "RevisedMini"} -> ButtonLayout_new(3, 2, TRUE)
      [] d = "Original" -> ButtonLayout_new(5, 3, FALSE)
      [] d = "OriginalV2" -> ButtonLayout_new(5, 3, TRUE)
      [] d = "Xl" -> ButtonLayout_new(8, 4, TRUE)
      [] d = "Plus" -> ButtonLayout_new(4, 2, TRUE)
      [] d = "Module6" -> ButtonLayout_new(3, 2, TRUE)
      [] d = "Module15" -> ButtonLayout_new(5, 3, TRUE)
      [] d = "Module32" -> ButtonLayout_new(8, 4, TRUE)

Range(seq) == {seq[i] : i \in DOMAIN seq}

\* Product ids a caller may pass: the supported ones, their neighbours and
\* the ends of u16.
PidInputs ==
    Range(Device_supported_pids)
    \cup {p - 1 : p \in Range(Device_supported_pids)}
    \cup {p + 1 : p \in Range(Device_supported_pids)}
    \cup {0, 65535}

NoFunction == [op |-> "none"]
NoReturn == [kind |-> "none"]

DeviceUsbConfig ==
    \E d \in Devices :
      /\ call' = [op |-> "usb_config", device |-> d]
      /\ returned' = Device_usb_config(d)
      /\ UNCHANGED <<current_device_pid, exceptPure>>

DeviceButtonLayout ==
    \E d \in Devices :
      /\ call' = [op |-> "button_layout", device |-> d]
      /\ returned' = Device_button_layout(d)
      /\ UNCHANGED <<current_device_pid, exceptPure>>

\* ProtocolHandler::create: one arm for each of V1, V2, Module6Keys and
\* Module15_32Keys; for any other ProtocolVersion there is no arm and no
\* handler is built.
ProtocolHandler_create(version) ==
    CASE version = "V1" -> Some([variant |-> "V1", handler |-> V1New])
      [] version = "V2" -> Some([variant |-> "V2", handler |-> V2New])
      [] version = "Module6Keys" -> Some([variant |-> "Module6Keys", handler |-> <<>>])
      [] version = "Module15_32Keys" ->
           Some([variant |-> "Module15_32Keys", handler |-> Module15_32New])
      [] OTHER -> None

\* ProtocolHandler::version
ProtocolHandler_version(h) ==
    CASE h.variant = "V1" -> "V1"
      [] h.variant = "V2" -> "V2"
      [] h.variant = "Module6Keys" -> "Module6Keys"
      [] h.variant = "Module15_32Keys" -> "Module15_32Keys"

\* The handler for a device: create on the protocol of its usb_config, then
\* version on what was built.
CreateHandler ==
    \E d \in Devices :
      LET protocol == Device_usb_config(d).protocol
          created == ProtocolHandler_create(protocol)
      IN /\ call' = [op |-> "create", device |-> d, protocol |-> protocol]
         /\ returned' = [created |-> created,
                         version |-> IF created.some
                                     THEN Some(ProtocolHandler_version(created.value))
                                     ELSE None]
         /\ UNCHANGED <<current_device_pid, exceptPure>>

DeviceFromPid ==
    \E pid \in PidInputs :
      /\ call' = [op |-> "from_pid", pid |-> pid]
      /\ returned' = Device_from_pid(pid)
      /\ UNCHANGED <<current_device_pid, exceptPure>>

SetDevicePidStoresAlways(pid) == TRUE

\* The test of set_device_pid.
SetDevicePidStores(pid) == Device_from_pid(pid).some

\* config::set_device_pid
SetDevicePid ==
    \E pid \in PidInputs :
      /\ call' = [op |-> "set_device_pid", pid |-> pid, stored |-> current_device_pid]
      /\ IF SetDevicePidStores(pid)
         THEN /\ current_device_pid' = pid
              /\ returned' = "Ok"
         ELSE /\ current_device_pid' = current_device_pid
              /\ returned' = "Err"
      /\ UNCHANGED exceptPure

\* config::get_current_device
GetCurrentDevice ==
    LET found == Device_from_pid(current_device_pid) IN
      /\ call' = [op |-> "get_current_device", stored |-> current_device_pid]
      /\ IF found.some
         THEN /\ returned' = [device |-> found.value, fallback |-> FALSE]
              /\ UNCHANGED current_device_pid
         ELSE /\ returned' = [device |-> "Mini", fallback |-> TRUE]
              /\ current_device_pid' = 99
      /\ UNCHANGED exceptPure

(***************************************************************************)
(* Feature reports: handle_feature_report and get_feature_report of the    *)
(* five handlers.                                                          *)
(***************************************************************************)
STREAMDECK_MAGIC_1 == 85
STREAMDECK_MAGIC_2 == 170
STREAMDECK_MAGIC_3 == 209
STREAMDECK_RESET_MAGIC == 99
STREAMDECK_BRIGHTNESS_RESET_MAGIC == 62
V2_COMMAND_RESET == 2
V2_COMMAND_BRIGHTNESS == 8
\* crate::config::IDLE_TIME_COMMAND, named by the comment at its use.
IDLE_TIME_COMMAND == 162

\* ModuleSetCommand
SetReset == [cmd |-> "Reset"]
SetBrightness(v) == [cmd |-> "SetBrightness", value |-> v]
SetIdleTime(s) == [cmd |-> "SetIdleTime", seconds |-> s]
ShowLogo == [cmd |-> "ShowLogo"]
UpdateBootLogo(s) == [cmd |-> "UpdateBootLogo", slice |-> s]

\* i32::from_le_bytes and i32::to_le_bytes
I32FromLe(b0, b1, b2, b3) ==
    b0 + 256 * b1 + 65536 * b2 + 16777216 * (IF b3 >= 128 THEN b3 - 256 ELSE b3)
I32ToLe(x) ==
    <<x % 256, (x \div 256) % 256, (x \div 65536) % 256, (x \div 16777216) % 256>>

HasMagicNoCommand(data, at) ==
    /\ Len(data) >= at + 5
    /\ At(data, at) = STREAMDECK_MAGIC_1
    /\ At(data, at + 1) = STREAMDECK_MAGIC_2
    /\ At(data, at + 2) = STREAMDECK_MAGIC_3

\* The length test and the four magic bytes that start at index `at`.
HasMagic(data, at) ==
    /\ Len(data) >= at + 5
    /\ At(data, at) = STREAMDECK_MAGIC_1
    /\ At(data, at + 1) = STREAMDECK_MAGIC_2
    /\ At(data, at + 2) = STREAMDECK_MAGIC_3
    /\ At(data, at + 3) = 1

V1_handle_feature_report(report_id, data) ==
    IF report_id = FEATURE_REPORT_BRIGHTNESS_V1
    THEN IF HasMagic(data, 1)
         THEN IF At(data, 5) = STREAMDECK_BRIGHTNESS_RESET_MAGIC
              THEN Some(SetReset)
              ELSE Some(SetBrightness(At(data, 5)))
         ELSE None
    ELSE IF report_id = 11
    THEN IF Len(data) >= 6 /\ At(data, 1) = IDLE_TIME_COMMAND
         THEN Some(SetIdleTime(I32FromLe(At(data, 2), At(data, 3), At(data, 4), At(data, 5))))
         ELSE IF Len(data) >= 2 /\ At(data, 1) = STREAMDECK_RESET_MAGIC
         THEN Some(SetReset)
         ELSE None
    ELSE None

V2_handle_feature_report(report_id, data) ==
    IF report_id = 3 /\ Len(data) >= 2
    THEN IF At(data, 1) = V2_COMMAND_RESET THEN Some(SetReset)
         ELSE IF At(data, 1) = V2_COMMAND_BRIGHTNESS
         THEN IF Len(data) >= 3 THEN Some(SetBrightness(At(data, 2))) ELSE None
         ELSE None
    ELSE None

\* ModuleHandler::handle_feature_report; its ProtocolCommand is written with
\* the ModuleSetCommand of the same name.
Module_handle_feature_report(report_id, data) ==
    IF report_id = 5
    THEN IF HasMagic(data, 1) THEN Some(SetBrightness(At(data, 5))) ELSE None
    ELSE IF report_id = 11
    THEN IF Len(data) >= 2
         THEN IF At(data, 1) = 99 THEN Some(SetReset)
              ELSE IF At(data, 1) = 162
              THEN IF Len(data) >= 6
                   THEN Some(SetIdleTime(I32FromLe(At(data, 2), At(data, 3),
                                                   At(data, 4), At(data, 5))))
                   ELSE None
              ELSE None
         ELSE None
    ELSE None

\* Module6KeysHandler::parse_module_set_command
Module6_handle_feature_report(report_id, data) ==
    IF report_id = 5
    THEN IF HasMagic(data, 0) THEN Some(SetBrightness(At(data, 4))) ELSE None
    ELSE IF report_id = 11
    THEN IF Len(data) >= 1
         THEN IF At(data, 0) = 99
              THEN IF Len(data) >= 2
                   THEN IF At(data, 1) = 0 THEN Some(ShowLogo)
                        ELSE IF At(data, 1) = 2
                        THEN Some(UpdateBootLogo(IF Len(data) >= 3 THEN At(data, 2) ELSE 0))
                        ELSE None
                   ELSE None
              ELSE IF At(data, 0) = 162
              THEN IF Len(data) >= 5
                   THEN Some(SetIdleTime(I32FromLe(At(data, 1), At(data, 2),
                                                   At(data, 3), At(data, 4))))
                   ELSE None
              ELSE None
         ELSE None
    ELSE None

Module15_32_handle_any_command(report_id, data) ==
    IF report_id = 3
    THEN IF Len(data) >= 3 THEN Some(SetBrightness(At(data, 2))) ELSE None
    ELSE None

\* Module15_32KeysHandler::parse_module_set_command
Module15_32_handle_feature_report(report_id, data) ==
    IF report_id = 3
    THEN IF Len(data) >= 3 /\ At(data, 1) = 8
         THEN Some(SetBrightness(At(data, 2)))
         ELSE None
    ELSE None

\* ProtocolHandler::handle_feature_report
Handle_feature_report(f, report_id, data) ==
    CASE f = "V1" -> V1_handle_feature_report(report_id, data)
      [] f = "V2" -> V2_handle_feature_report(report_id, data)
      [] f = "Module" -> Module_handle_feature_report(report_id, data)
      [] f = "Module6Keys" -> Module6_handle_feature_report(report_id, data)
      [] f = "Module15_32Keys" -> Module15_32_handle_feature_report(report_id, data)

\* ASCII
USB_SERIAL == <<80, 82, 79, 68, 85, 67, 84, 73, 79, 78, 68, 75>>
Version_3_00_000 == <<51, 46, 48, 48, 46, 48, 48, 48>>
Version_1_00_003 == <<49, 46, 48, 48, 46, 48, 48, 51>>
Version_1_03_000 == <<49, 46, 48, 51, 46, 48, 48, 48>>
Version_1_00_000 == <<49, 46, 48, 48, 46, 48, 48, 48>>
Module6Serial == <<49, 50, 51, 52, 53, 54, 55, 56, 57, 48>>
Module15_32Serial == <<65, 49, 66, 50, 67, 51, 68, 52, 69, 53, 70, 54, 71, 55>>

NoResponse(buf) == [kind |-> "None", buf |-> buf]
Response(n, buf) == [kind |-> "Some", len |-> n, buf |-> buf]
ResponsePanic == [kind |-> "Panic"]

\* "buf.iter_mut().take(total_len).for_each(|b| *b = 0)"
Zeroed(buf, total_len) ==
    [i \in 1..Len(buf) |-> IF i <= total_len THEN 0 ELSE buf[i]]

EnvelopeNotZeroed(buf, max_len, head, ascii, start, tests_end) ==
    LET total_len == Min(max_len, Len(buf))
        end == Min(start + Len(ascii), total_len)
    IN IF Len(buf) < Len(head) THEN ResponsePanic
       ELSE Response(total_len,
              [i \in 1..Len(buf) |->
                 IF i <= Len(head) THEN head[i]
                 ELSE IF ascii # <<>> /\ start < i /\ i <= end THEN ascii[i - start]
                 ELSE buf[i]])

\* One arm of get_feature_report: zero the first min(max_len, buf.len())
\* bytes, store `head` at buf[0..], copy `ascii` to buf[start..end] with
\* end = min(start + ascii.len(), total_len), return total_len.  An index
\* past the buffer panics, and so does start > end unless the arm tests
\* "end > start" first.
Envelope(buf, max_len, head, ascii, start, tests_end) ==
    LET total_len == Min(max_len, Len(buf))
        end == Min(start + Len(ascii), total_len)
    IN IF Len(buf) < Len(head) THEN ResponsePanic
       ELSE IF ascii # <<>> /\ ~tests_end /\ end < start THEN ResponsePanic
       ELSE Response(total_len,
              [i \in 1..Len(buf) |->
                 IF i <= Len(head) THEN head[i]
                 ELSE IF ascii # <<>> /\ start < i /\ i <= end THEN ascii[i - start]
                 ELSE IF i <= total_len THEN 0
                 ELSE buf[i]])

\* V1Handler::get_feature_report; idle_id is
\* crate::config::FEATURE_REPORT_GET_IDLE_TIME and seconds what
\* get_idle_time_seconds() returns.
V1_get_feature_report(report_id, buf, idle_id, seconds) ==
    IF report_id \in 160..162
    THEN Envelope(buf, 32, <<report_id, 12, 49, 51, 0>>, Version_3_00_000, 5, FALSE)
    ELSE IF report_id = 3
    THEN Envelope(buf, 32, <<report_id, 12, 49, 51, 0>>, USB_SERIAL, 5, FALSE)
    ELSE IF report_id = 4
    THEN Envelope(buf, 17, <<report_id>>, Version_3_00_000, 5, FALSE)
    ELSE IF report_id = 5
    THEN Envelope(buf, 32, <<report_id, 12, 49, 51, 0>>, Version_3_00_000, 5, FALSE)
    ELSE IF report_id = idle_id
    THEN Envelope(buf, 32, <<report_id, 6>> \o I32ToLe(seconds), <<>>, 0, FALSE)
    ELSE IF report_id = 7
    THEN Envelope(buf, 16, <<report_id>>, <<>>, 0, FALSE)
    ELSE NoResponse(buf)

V2_get_feature_report(report_id, buf, idle_id, seconds) ==
    IF report_id \in 160..162
    THEN Envelope(buf, 32, <<report_id, 12, 49, 51, 0>>, Version_3_00_000, 5, FALSE)
    ELSE IF report_id = 3
    THEN Envelope(buf, 32, <<report_id, 12, 49, 51, 0>>, USB_SERIAL, 5, FALSE)
    ELSE IF report_id = idle_id
    THEN Envelope(buf, 32, <<report_id, 6>> \o I32ToLe(seconds), <<>>, 0, FALSE)
    ELSE NoResponse(buf)

\* Module6KeysHandler::get_feature_report_bytes
Module6_get_feature_report(report_id, buf, seconds) ==
    LET zeroed == Zeroed(buf, Min(32, Len(buf))) IN
    IF report_id = 160 THEN Envelope(buf, 32, <<report_id>>, Version_1_00_003, 5, TRUE)
    ELSE IF report_id \in {161, 162}
    THEN Envelope(buf, 32, <<report_id>>, Version_1_03_000, 5, TRUE)
    ELSE IF report_id = 3 THEN Envelope(buf, 32, <<3>>, Module6Serial, 5, TRUE)
    ELSE IF report_id = 163
    THEN Envelope(buf, 32, <<163, 4>> \o I32ToLe(seconds), <<>>, 0, TRUE)
    ELSE NoResponse(zeroed)

\* Module15_32KeysHandler::get_feature_report
Module15_32_get_feature_report(report_id, buf, seconds) ==
    LET zeroed == Zeroed(buf, Min(32, Len(buf))) IN
    IF report_id \in {4, 5, 7}
    THEN Envelope(buf, 32, <<report_id, 12>>, Version_1_00_000, 6, TRUE)
    ELSE IF report_id = 6
    THEN Envelope(buf, 32, <<6, Min(Len(Module15_32Serial), 14)>>, Module15_32Serial, 2, TRUE)
    ELSE IF report_id = 10
    THEN Envelope(buf, 32, <<10, 4>> \o I32ToLe(seconds), <<>>, 0, TRUE)
    ELSE NoResponse(zeroed)

\* ProtocolHandler::get_feature_report; ModuleHandler keeps the trait's
\* default, which is unhandled.
Get_feature_report(f, report_id, buf, idle_id, seconds) ==
    CASE f = "V1" -> V1_get_feature_report(report_id, buf, idle_id, seconds)
      [] f = "V2" -> V2_get_feature_report(report_id, buf, idle_id, seconds)
      [] f = "Module" -> NoResponse(buf)
      [] f = "Module6Keys" -> Module6_get_feature_report(report_id, buf, seconds)
      [] f = "Module15_32Keys" -> Module15_32_get_feature_report(report_id, buf, seconds)

\* A handler between the first and the last packet of an upload.
V1Mid == V1_parse_output_report(V1New, V1Report("full", 1, 1, <<170>>), BufCap).h
V2Mid == V2_process_image_packet(V2New, V2Report("full", 1, 0, 1, 0, <<170>>), BufCap, FALSE).h

ModuleMid ==
    Module_process_image_packet(ModuleNew, ModuleReport(0, 1, 1030, 170), ModuleBufCap, FALSE).h

\* Report ids and bytes a host may send with SET_REPORT(Feature).
FeatureSetIds == {0, 3, 5, 7, 11, 255}
FeatureData ==
    { <<5, 85, 170, 209, 1, v>> : v \in {0, 62, 100, 255} }
    \cup { <<85, 170, 209, 1, v>> : v \in {62, 100} }
    \cup { <<5, 84, 170, 209, 1, 100>>, <<5, 85, 171, 209, 1, 100>>,
           <<5, 85, 170, 208, 1, 100>>, <<5, 85, 170, 209, 2, 100>>,
           <<5, 85, 170, 209, 1>>, <<85, 170, 209, 1>>, <<85, 170, 209, 0, 100>>,
           <<>>, <<5>>,
           <<11, 99>>, <<11, 99, 0>>, <<11, 99, 2, 7>>, <<11, 98>>, <<11>>,
           <<11, 162, 44, 1, 0, 0>>, <<11, 162, 255, 255, 255, 255>>, <<11, 162, 1>>,
           <<99, 0>>, <<99, 2, 7>>, <<99, 2>>, <<99, 1>>, <<99>>,
           <<162, 44, 1, 0, 0>>, <<162, 1>>,
           <<3, 2>>, <<3, 8, 100>>, <<3, 8>>, <<3, 9>>, <<3>> }

\* Report ids a host may ask for with GET_REPORT(Feature), the lengths of
\* the buffer it is answered in, and the idle time stored.
FeatureGetIds == 0..12 \cup 159..164 \cup {255}
BufLens == {0, 4, 16, 17, 32, 33}
IdleIds == {10, 163}
IdleTimes == {0, 300, -1}

\* The caller has looked at what the call returned and is ready for the next.
Return ==
    /\ call # NoFunction
    /\ call' = NoFunction
    /\ returned' = NoReturn
    /\ UNCHANGED <<current_device_pid, exceptPure>>

\* The handler fields (`&mut self`) when handle_feature_report or
\* get_feature_report returns: every arm computes its answer from report_id,
\* data and buf, and none assigns a field.
Handler_reset_by_feature_report(handlers) == <<V1New, V2New, ModuleNew>>
Handler_after_feature_report(handlers) == handlers

\* What a feature report call leaves alone besides the handler fields.
exceptFeature ==
    <<family, overflow_checks, module15_32, input, before, result, mapVars, buttonVars,
      commandVars, display_buffer, upload, display_task, current_device_pid>>

\* ProtocolHandler::handle_feature_report
HandleFeatureReport ==
    \E report_id \in FeatureSetIds, data \in FeatureData :
      /\ call = NoFunction
      /\ call' = [op |-> "handle_feature_report", report_id |-> report_id,
                  data |-> data, handler |-> <<v1, v2, module>>]
      /\ returned' = Handle_feature_report(family, report_id, data)
      /\ v1' = Handler_after_feature_report(<<v1, v2, module>>)[1]
      /\ v2' = Handler_after_feature_report(<<v1, v2, module>>)[2]
      /\ module' = Handler_after_feature_report(<<v1, v2, module>>)[3]
      /\ UNCHANGED exceptFeature

\* ProtocolHandler::get_feature_report
GetFeatureReport ==
    \E report_id \in FeatureGetIds, n \in BufLens, idle_id \in IdleIds,
       seconds \in IdleTimes :
      /\ call = NoFunction
      /\ call' = [op |-> "get_feature_report", report_id |-> report_id,
                  buf |-> Fill(n, 238), idle_id |-> idle_id, seconds |-> seconds,
                  handler |-> <<v1, v2, module>>]
      /\ returned' = Get_feature_report(family, report_id, Fill(n, 238), idle_id, seconds)
      /\ v1' = Handler_after_feature_report(<<v1, v2, module>>)[1]
      /\ v2' = Handler_after_feature_report(<<v1, v2, module>>)[2]
      /\ module' = Handler_after_feature_report(<<v1, v2, module>>)[3]
      /\ UNCHANGED exceptFeature

(***************************************************************************)
(* Button reports built by the handler: map_buttons, then                  *)
(* format_button_report into the caller's buffer.                          *)
(***************************************************************************)
FormatPanic == [kind |-> "Panic"]
Formatted(n, report) == [kind |-> "Ok", len |-> n, report |-> report]

\* The loops of format_button_report: button_bytes states after `header`
\* bytes, zeros from there on; mapped_buttons is indexed up to button_bytes.
FormatButtons(buttons, report, header, button_bytes) ==
    IF button_bytes > MAX_BUTTONS THEN FormatPanic
    ELSE Formatted(header + button_bytes,
           [i \in 1..Len(report) |->
              IF i <= header THEN report[i]
              ELSE IF i <= header + button_bytes
                   THEN (IF buttons.mapped_buttons[i - 1 - header] THEN 1 ELSE 0)
                   ELSE 0])

\* V1Handler::format_button_report
V1_format_button_report(buttons, report) ==
    IF Len(report) = 0 THEN Formatted(0, report)
    ELSE FormatButtons(buttons, <<1>> \o Tail(report), 1,
                       Min(buttons.active_count, Len(report) - 1))

\* V2Handler::format_button_report
V2_format_button_report(buttons, report) ==
    IF Len(report) < 4 THEN Formatted(0, report)
    ELSE FormatButtons(buttons, <<0, 0, 0>> \o SubSeq(report, 4, Len(report)), 3,
                       Min(buttons.active_count, Len(report) - 3))

\* Keys held down and report buffers of the button reports explored.
ReportDevices == {"Original", "Xl"}
ReportPressed == {{}, {1, 5}}
ReportLens == {0, 18}

\* One button report of a V1 or V2 device: its handler maps the keys of the
\* device's layout and formats them.
ButtonReportCall ==
    \E d \in ReportDevices, pressed \in ReportPressed,
       n \in ReportLens :
      LET layout == Device_button_layout(d)
          physical == PhysicalOf(pressed)
          buttons == IF family = "V1"
                     THEN V1_map_buttons(physical, layout.cols, layout.rows,
                                         layout.left_to_right)
                     ELSE V2_map_buttons(physical, layout.cols, layout.rows,
                                         layout.left_to_right)
      IN /\ call = NoFunction
         /\ family = Device_usb_config(d).protocol
         /\ call' = [op |-> "format_button_report", device |-> d, pressed |-> pressed,
                     buttons |-> buttons, handler |-> <<v1, v2, module>>]
         /\ returned' = IF family = "V1"
                        THEN V1_format_button_report(buttons, Fill(n, 238))
                        ELSE V2_format_button_report(buttons, Fill(n, 238))
         /\ UNCHANGED <<current_device_pid, exceptPure>>

(***************************************************************************)
(* Button reports of every handler ProtocolHandler::create builds, for the *)
(* layout of every device.                                                 *)
(***************************************************************************)
\* The nested loops "for y in 0..rows { for x in 0..cols {" of the Module 6
\* and Module 15/32 map_buttons: dst_index = y * cols + x is written once,
\* from src_index, when src_index is in the slice and dst_index below max.
GridMap(physical_buttons, cols, rows, left_to_right, max) ==
    [dst_index \in ButtonIndices |->
       LET y == dst_index \div cols
           x == dst_index % cols
           src_index == IF left_to_right THEN y * cols + x
                        ELSE y * cols + (cols - 1 - x)
       IN IF dst_index < cols * rows /\ src_index < Len(physical_buttons)
             /\ dst_index < max
          THEN At(physical_buttons, src_index)
          ELSE FALSE]

\* Module6KeysHandler::map_buttons
Module6_map_buttons(physical_buttons, cols, rows, left_to_right) ==
    [mapped_buttons |-> GridMap(physical_buttons, cols, rows, left_to_right, MAX_BUTTONS),
     active_count |-> 6]

\* "match self.model { Module15 => 15, Module32 => 32 }"
Module15_32_max_keys(h) == IF h.model = "Module15" THEN 15 ELSE 32

\* Module15_32KeysHandler::map_buttons
Module15_32_map_buttons(h, physical_buttons, cols, rows, left_to_right) ==
    [mapped_buttons |-> GridMap(physical_buttons, cols, rows, left_to_right,
                                Module15_32_max_keys(h)),
     active_count |-> Module15_32_max_keys(h)]

\* Module6KeysHandler::format_button_report
Module6_format_button_report(buttons, report) ==
    LET MAX_USB_SIZE == 64
        button_count == Min(6, MAX_BUTTONS)
    IN IF Len(report) < MAX_USB_SIZE THEN Formatted(0, report)
       ELSE Formatted(MAX_USB_SIZE,
              [i \in 1..Len(report) |->
                 IF i = 1 THEN 1
                 ELSE IF i <= 1 + button_count
                      THEN (IF buttons.mapped_buttons[i - 2] THEN 1 ELSE 0)
                      ELSE IF i <= MAX_USB_SIZE THEN 0
                      ELSE report[i]])

\* Module15_32KeysHandler::format_button_report
Module15_32_format_button_report(h, buttons, report) ==
    LET used == Min(Module15_32_max_keys(h), MAX_BUTTONS)
        needed == 4 + used
    IN IF Len(report) < needed THEN Formatted(0, report)
       ELSE Formatted(needed,
              [i \in 1..Len(report) |->
                 IF i <= 4 THEN <<1, 0, used % 256, 0>>[i]
                 ELSE IF i <= needed
                      THEN (IF buttons.mapped_buttons[i - 5] THEN 1 ELSE 0)
                      ELSE report[i]])

\* ProtocolHandler::map_buttons
Handler_map_buttons(h, physical_buttons, cols, rows, left_to_right) ==
    CASE h.variant = "V1" -> V1_map_buttons(physical_buttons, cols, rows, left_to_right)
      [] h.variant = "V2" -> V2_map_buttons(physical_buttons, cols, rows, left_to_right)
      [] h.variant = "Module6Keys" ->
           Module6_map_buttons(physical_buttons, cols, rows, left_to_right)
      [] h.variant = "Module15_32Keys" ->
           Module15_32_map_buttons(h.handler, physical_buttons, cols, rows, left_to_right)

\* ProtocolHandler::input_report_size
Handler_input_report_size(h, button_count) ==
    CASE h.variant = "V1" -> 1 + button_count
      [] h.variant = "V2" -> 3 + button_count
      [] h.variant = "Module6Keys" -> 65
      [] h.variant = "Module15_32Keys" -> 512

\* ProtocolHandler::format_button_report
Handler_format_button_report(h, buttons, report) ==
    CASE h.variant = "V1" -> V1_format_button_report(buttons, report)
      [] h.variant = "V2" -> V2_format_button_report(buttons, report)
      [] h.variant = "Module6Keys" -> Module6_format_button_report(buttons, report)
      [] h.variant = "Module15_32Keys" ->
           Module15_32_format_button_report(h.handler, buttons, report)

\* DeviceConfig::input_report_size
Device_input_report_size(d) ==
    CASE Device_usb_config(d).protocol = "V1" -> Device_button_layout(d).total_keys + 1
      [] Device_usb_config(d).protocol = "V2" -> Device_button_layout(d).total_keys + 4
      [] Device_usb_config(d).protocol = "Module" -> 65

\* The ProtocolVersion values a handler is created for, and the keys held
\* down in the reports explored.
HandlerVersions == {"V1", "V2", "Module6Keys", "Module15_32Keys"}
DeclaredVersions == {Device_usb_config(d).protocol : d \in Devices}
LayoutPressed == {{}, {0}, {1, 5}, {2, 14}, {15, 20, 31}, ButtonIndices}

\* The button report of a device: a handler is created, it maps the keys of
\* the device's layout and formats them into a buffer of the size it asks
\* for.  The handler is the one for the device's declared protocol, or any of
\* the four the dispatcher can build.
DeviceButtonReport ==
    \E d \in Devices, version \in HandlerVersions \cup DeclaredVersions,
       pressed \in LayoutPressed :
      LET layout == Device_button_layout(d)
          created == ProtocolHandler_create(version)
          h == created.value
          buttons == Handler_map_buttons(h, PhysicalOf(pressed), layout.cols, layout.rows,
                                         layout.left_to_right)
          size == Handler_input_report_size(h, layout.total_keys)
      IN /\ call = NoFunction
         /\ version \in HandlerVersions \cup {Device_usb_config(d).protocol}
         /\ call' = [op |-> "button_report", device |-> d, version |-> version,
                     pressed |-> pressed]
         /\ returned' = IF created.some
                        THEN [created |-> TRUE, buttons |-> buttons, size |-> size,
                              device_size |-> Device_input_report_size(d),
                              written |-> Handler_format_button_report(h, buttons,
                                                                       Fill(size, 238))]
                        ELSE [created |-> FALSE,
                              device_size |-> Device_input_report_size(d)]
         /\ UNCHANGED <<current_device_pid, exceptPure>>

(***************************************************************************)
(* Core 0 start-up: the pins made for a device and the button task spawned. *)
(***************************************************************************)
ButtonInputModes == {"Matrix", "Direct"}

IsMini(device) == device \in {"Mini", "RevisedMini"}

\* heapless Vec::pop until None, pushing each pin: the pins in reverse order
PoppedInto(pins) == [i \in 1..Len(pins) |-> pins[Len(pins) + 1 - i]]

\* create_all_pins_for_device: the GPIO numbers of row_pins and col_pins
create_all_pins_for_device(mode, device) ==
    LET layout == Device_button_layout(device)
    IN IF mode = "Direct" /\ IsMini(device)
       THEN [row_pins |-> <<>>, col_pins |-> <<4, 5, 6, 10, 11, 12>>]
       ELSE CASE layout.rows = 2 /\ layout.cols = 3 ->
                   [row_pins |-> <<2, 3>>, col_pins |-> <<4, 5, 6>>]
              [] layout.rows = 3 /\ layout.cols = 5 ->
                   [row_pins |-> <<2, 3, 7>>, col_pins |-> <<4, 5, 6, 10, 11>>]
              [] layout.rows = 4 /\ layout.cols = 8 ->
                   [row_pins |-> <<2, 3, 7, 9>>,
                    col_pins |-> <<4, 5, 6, 10, 11, 12, 13, 16>>]
              [] OTHER -> [row_pins |-> <<2, 3>>, col_pins |-> <<4, 5, 6>>]

\* spawn_button_task_with_pins: the task spawned and the pins moved into it
spawn_button_task_with_pins(mode, row_pins, col_pins, device) ==
    LET layout == Device_button_layout(device)
        matrix(task, rows, cols) ==
            IF Len(row_pins) < rows \/ Len(col_pins) < cols
            THEN [task |-> "panic", rows |-> <<>>, inputs |-> <<>>]
            ELSE [task |-> task,
                  rows |-> SubSeq(row_pins, Len(row_pins) - rows + 1, Len(row_pins)),
                  inputs |-> SubSeq(col_pins, Len(col_pins) - cols + 1, Len(col_pins))]
        inputs == PoppedInto(col_pins)
    IN IF mode = "Matrix"
       THEN CASE layout.rows = 2 /\ layout.cols = 3 -> matrix("button_task_matrix_3x2", 2, 3)
              [] layout.rows = 3 /\ layout.cols = 5 -> matrix("button_task_matrix_5x3", 3, 5)
              [] layout.rows = 4 /\ layout.cols = 8 -> matrix("button_task_matrix_8x4", 4, 8)
              [] OTHER -> matrix("button_task_matrix_3x2", 2, 3)
       ELSE [task |-> "button_task_direct", rows |-> <<>>,
             inputs |-> IF IsMini(device) /\ Len(inputs) > 6 THEN SubSeq(inputs, 1, 6)
                        ELSE inputs]

\* The mode spawn_button_task_with_pins reads: init_hardware_tasks_core0 stores
\* Direct for the Mini devices after the pins are made.
ModeAtSpawn(mode, device) == IF IsMini(device) THEN "Direct" ELSE mode

\* init_hardware_tasks_core0, from the input mode BUTTON_INPUT_MODE holds
InitHardwareTasksCore0 ==
    \E device \in Devices, mode \in ButtonInputModes :
      LET pins == create_all_pins_for_device(mode, device)
          at_spawn == ModeAtSpawn(mode, device)
      IN /\ call = NoFunction
         /\ call' = [op |-> "init_hardware_tasks_core0", device |-> device, mode |-> mode]
         /\ returned' = [pins |-> pins, mode |-> at_spawn,
                         button_task |-> spawn_button_task_with_pins(at_spawn, pins.row_pins,
                                                                     pins.col_pins, device)]
         /\ UNCHANGED <<current_device_pid, exceptPure>>

(***************************************************************************)
(* The display task's ImageBuffer, and reset applied to a handler.         *)
(***************************************************************************)
ImageBuffer_new ==
    [data |-> <<>>, receiving |-> FALSE, complete |-> FALSE, expected_sequence |-> 0]

ImageBuffer_reset(b) ==
    [b EXCEPT !.data = <<>>, !.receiving = FALSE, !.complete = FALSE,
              !.expected_sequence = 0]

\* ImageBuffer::add_packet
ImageBuffer_add_packet(b, packet_data, cap, checks) ==
    IF Len(packet_data) < 8 THEN [b |-> b, result |-> "Err"]
    ELSE
    LET is_last == At(packet_data, 3) # 0
        payload_len == U16Le(At(packet_data, 4), At(packet_data, 5))
        sequence == U16Le(At(packet_data, 6), At(packet_data, 7))
        b1 == IF sequence = 0
              THEN [ImageBuffer_reset(b) EXCEPT !.receiving = TRUE]
              ELSE b
    IN
    IF ~b1.receiving \/ sequence # b1.expected_sequence
    THEN [b |-> ImageBuffer_reset(b1), result |-> "Err"]
    ELSE
    LET copy_len == Min(payload_len, Len(packet_data) - 8)
        ext == ExtendFromSlice(b1.data, Slice(packet_data, 8, 8 + copy_len), cap)
    IN
    IF ~ext.ok THEN [b |-> ImageBuffer_reset(b1), result |-> "Err"]
    ELSE IF checks /\ b1.expected_sequence = 65535
    THEN [b |-> [b1 EXCEPT !.data = ext.vec], result |-> "Panic"]
    ELSE
    LET b2 == [b1 EXCEPT !.data = ext.vec,
                         !.expected_sequence = (b1.expected_sequence + 1) % 65536]
    IN IF is_last
       THEN [b |-> [b2 EXCEPT !.complete = TRUE, !.receiving = FALSE],
             result |-> "Ok(true)"]
       ELSE [b |-> b2, result |-> "Ok(false)"]

ImageBufferAddPacket ==
    /\ family = "Display"
    /\ call = NoFunction
    /\ \E i \in V2Inputs \cup RawInputs :
         LET r == ImageBuffer_add_packet(display_buffer, InputBytes(i), BufCap,
                                         overflow_checks)
         IN /\ call' = [op |-> "add_packet", before |-> display_buffer]
            /\ returned' = r.result
            /\ display_buffer' = r.b
    /\ UNCHANGED exceptDisplay

ImageBufferReset ==
    /\ family = "Display"
    /\ call = NoFunction
    /\ call' = [op |-> "reset", before |-> display_buffer]
    /\ returned' = "()"
    /\ display_buffer' = ImageBuffer_reset(display_buffer)
    /\ UNCHANGED exceptDisplay

\* reset_image_state of the handler in use.
HandlerReset ==
    /\ family \in {"V1", "V2", "Module"}
    /\ input = NoInput
    /\ input' = [kind |-> "reset"]
    /\ before' = (CASE family = "V1" -> v1 [] family = "V2" -> v2 [] OTHER -> module)
    /\ result' = NoResult
    /\ v1' = IF family = "V1" THEN V1_reset_image_state(v1) ELSE v1
    /\ v2' = IF family = "V2" THEN V2_reset_image_state(v2) ELSE v2
    /\ module' = IF family = "Module" THEN Module_reset_image_state(module) ELSE module
    /\ UNCHANGED <<family, overflow_checks, module15_32, exceptProto>>

(***************************************************************************)
(* Image transformations (protocol::image).                                *)
(***************************************************************************)
MaxWidth == 3
MaxHeight == 2

\* Vec::push on a full Vec returns Err and stores nothing: of the bytes
\* pushed one after the other, the first `cap` stay.
Pushed(bytes, cap) == SubSeq(bytes, 1, Min(cap, Len(bytes)))

RotateOldIdxByHeight(old_x, old_y, width, height) == (old_y * height + old_x) * 3

\* "let old_idx = (old_y * width + old_x) * 3"
RotateOldIdx(old_x, old_y, width, height) == (old_y * width + old_x) * 3

\* A pixel loop of the image functions: `idxs` holds the source index of
\* every pass in loop order; a pass whose index passes
\* "if idx + 2 < image_data.len()" pushes the three bytes found there.  The
\* image and the passes that push are bound once, as values.
PixelLoop(image_data, idxs) ==
    CHOOSE pushed \in
      {[i \in 1..Min(3 * Len(kept), IMAGE_BUFFER_SIZE) |->
          At(data, kept[((i - 1) \div 3) + 1] + ((i - 1) % 3))] :
         data \in {image_data},
         kept \in {SelectSeq(idxs, LAMBDA idx : idx + 2 < Len(image_data))}} : TRUE

\* image::rotate_270: pass k of the two loops has new_y = k / height and
\* new_x = k % height.
rotate_270(image_data, width, height) ==
    PixelLoop(image_data,
              [n \in 1..(width * height) |->
                 LET new_y == (n - 1) \div height
                     new_x == (n - 1) % height
                     old_x == width - 1 - new_y
                     old_y == new_x
                 IN RotateOldIdx(old_x, old_y, width, height)])

\* image::flip_horizontal: pass k has y = k / width and x = k % width.
flip_horizontal(image_data, width, height) ==
    PixelLoop(image_data,
              [n \in 1..(width * height) |->
                 LET y == (n - 1) \div width
                     x == (n - 1) % width
                     src_x == width - 1 - x
                 IN (y * width + src_x) * 3])

\* image::flip_vertical
flip_vertical(image_data, width, height) ==
    PixelLoop(image_data,
              [n \in 1..(width * height) |->
                 LET y == (n - 1) \div width
                     x == (n - 1) % width
                     src_y == height - 1 - y
                 IN (src_y * width + x) * 3])

\* image::apply_transformations: the input is copied into a Vec of
\* IMAGE_BUFFER_SIZE bytes with extend_from_slice, whose error is dropped.
apply_transformations(image_data, width, height, needs_rotation, should_flip_horizontal, should_flip_vertical) ==
    LET result_data == ExtendFromSlice(<<>>, image_data, IMAGE_BUFFER_SIZE).vec
        rotated == IF needs_rotation
                   THEN rotate_270(result_data, width, height)
                   ELSE result_data
        flipped_h == IF should_flip_horizontal
                     THEN flip_horizontal(rotated, width, height)
                     ELSE rotated
    IN IF should_flip_vertical
       THEN flip_vertical(flipped_h, width, height)
       ELSE flipped_h

\* Capacity of the Vec rgb888_to_rgb565 returns.
RGB565_CAPACITY == 2048

\* image::rgb888_to_rgb565: chunks_exact(3) leaves out a last chunk of fewer
\* than three bytes; the shifts make the three fields disjoint, so the ors
\* are sums.  Two bytes are pushed for every chunk, the high one first.
rgb888_to_rgb565(rgb888) ==
    Pushed([i \in 1..(2 * (Len(rgb888) \div 3)) |->
              LET chunk == (i - 1) \div 2
                  r5 == At(rgb888, 3 * chunk) \div 8
                  g6 == At(rgb888, 3 * chunk + 1) \div 4
                  b5 == At(rgb888, 3 * chunk + 2) \div 8
                  rgb565 == (r5 * 2048) + (g6 * 32) + b5
              IN IF i % 2 = 1 THEN rgb565 \div 256 ELSE rgb565 % 256],
           RGB565_CAPACITY)

\* Device::display_config
DisplayConfig(image_width, image_height, format, needs_rotation, flip_h, flip_v) ==
    [image_width |-> image_width, image_height |-> image_height, format |-> format,
     needs_rotation |-> needs_rotation, flip_horizontal |-> flip_h,
     flip_vertical |-> flip_v]

Device_display_config(d) ==
    CASE d \in {"Mini", "RevisedMini"} -> DisplayConfig(80, 80, "Bmp", TRUE, FALSE, FALSE)
      [] d = "Original" -> DisplayConfig(72, 72, "Bmp", FALSE, TRUE, FALSE)
      [] d = "OriginalV2" -> DisplayConfig(72, 72, "Jpeg", FALSE, TRUE, TRUE)
      [] d = "Xl" -> DisplayConfig(96, 96, "Jpeg", FALSE, TRUE, TRUE)
      [] d = "Plus" -> DisplayConfig(120, 120, "Jpeg", FALSE, FALSE, FALSE)
      [] d = "Module6" -> DisplayConfig(80, 80, "Bmp", TRUE, FALSE, FALSE)
      [] d = "Module15" -> DisplayConfig(72, 72, "Bmp", TRUE, FALSE, FALSE)
      [] d = "Module32" -> DisplayConfig(96, 96, "Bmp", TRUE, FALSE, FALSE)

\* RGB888 images: every picture of two colours, the picture whose bytes
\* count up from 0, one-pixel pictures over the shades at which the RGB565
\* fields change, the key image of every device, and the smallest picture
\* that does not fit IMAGE_BUFFER_SIZE bytes.
Colours == {<<10, 20, 30>>, <<40, 50, 60>>}
Counting(width, height) == [i \in 1..(width * height * 3) |-> (i - 1) % 256]
RECURSIVE Pictures(_)
Pictures(n) ==
    IF n = 0 THEN {<<>>}
    ELSE {p \o c : p \in Pictures(n - 1), c \in Colours}
Image(data, width, height) == [data |-> data, width |-> width, height |-> height]
Shades == {0, 3, 4, 7, 8, 31, 32, 255}
PixelImages == {Image(<<r, g, b>>, 1, 1) : r \in Shades, g \in Shades, b \in Shades}
KeyImages ==
    {Image(Counting(c.image_width, c.image_height), c.image_width, c.image_height) :
       c \in {Device_display_config(d) : d \in Devices}}
Images ==
    UNION {{Image(d, w, h) : d \in Pictures(w * h) \cup {Counting(w, h)}} :
             w \in 0..MaxWidth, h \in 0..MaxHeight}
      \cup PixelImages \cup KeyImages \cup {Image(Counting(19, 18), 19, 18)}

Returned(data, width, height, times) ==
    [data |-> data, width |-> width, height |-> height, times |-> times]

\* rotate_270 applied to the image the last call returned, with width and
\* height swapped after each call.
Rotate270 ==
    /\ call.op = "image"
    /\ returned.times < 4
    /\ returned' = Returned(rotate_270(returned.data, returned.width, returned.height),
                            returned.height, returned.width, returned.times + 1)
    /\ UNCHANGED <<call, current_device_pid, exceptPure>>

\* One call of flip_horizontal on the image.
FlipHorizontal ==
    /\ call.op = "image"
    /\ returned.times = 0
    /\ call' = [op |-> "flip_horizontal", image |-> call.image]
    /\ returned' = Returned(flip_horizontal(call.image.data, call.image.width,
                                            call.image.height),
                            call.image.width, call.image.height, 1)
    /\ UNCHANGED <<current_device_pid, exceptPure>>

\* One call of flip_vertical on the image.
FlipVertical ==
    /\ call.op = "image"
    /\ returned.times = 0
    /\ call' = [op |-> "flip_vertical", image |-> call.image]
    /\ returned' = Returned(flip_vertical(call.image.data, call.image.width,
                                          call.image.height),
                            call.image.width, call.image.height, 1)
    /\ UNCHANGED <<current_device_pid, exceptPure>>

\* One call of apply_transformations on the image, with any flags.
ApplyTransformations ==
    /\ call.op = "image"
    /\ returned.times = 0
    /\ \E needs_rotation \in BOOLEAN, flip_h \in BOOLEAN, flip_v \in BOOLEAN :
         /\ call' = [op |-> "apply_transformations", image |-> call.image,
                     needs_rotation |-> needs_rotation, flip_h |-> flip_h,
                     flip_v |-> flip_v]
         /\ returned' = Returned(apply_transformations(call.image.data, call.image.width,
                                   call.image.height, needs_rotation, flip_h, flip_v),
                                 call.image.width, call.image.height, 1)
    /\ UNCHANGED <<current_device_pid, exceptPure>>

\* One call of rgb888_to_rgb565 on the bytes of the image.
Rgb888ToRgb565 ==
    /\ call.op = "image"
    /\ returned.times = 0
    /\ call' = [op |-> "rgb888_to_rgb565", image |-> call.image]
    /\ returned' = Returned(rgb888_to_rgb565(call.image.data), call.image.width,
                            call.image.height, 1)
    /\ UNCHANGED <<current_device_pid, exceptPure>>

(***************************************************************************)
(* What the host put into the last report, read off the report's           *)
(* construction rather than off the handler's parse.                       *)
(***************************************************************************)
\* A V2 image report long enough to be taken as one (8 bytes or more).
V2Recognised(i) ==
    /\ family = "V2"
    /\ i.kind = "v2"
    /\ (i.form = "full" \/ Len(i.payload) >= 1)

\* The payload bytes a V2 report contributes.
V2Copied(i) == SubSeq(i.payload, 1, Min(i.payload_len, Len(i.payload)))

\* The V2 report passes the handler's key/sequence validation in state b.
V2Accepts(b, i) ==
    \/ i.sequence = 0
    \/ b.receiving_image /\ i.key = b.expected_key /\ i.sequence = b.expected_sequence

\* The bytes buffered when the payload of i is appended in state b.
V2Base(b, i) == IF i.sequence = 0 THEN <<>> ELSE b.image_buffer

V1Recognised(i) ==
    /\ family = "V1"
    /\ i.kind = "v1"
    /\ (i.form = "full" \/ Len(i.payload) >= 1)

ModuleRecognised(i) == family = "Module" /\ i.kind = "module"

ModuleCopied(i) == Fill(Min(i.len - MODULE_DATA_START, CHUNK_DATA_SIZE), i.fill)

ModuleAccepts(b, i) ==
    \/ i.chunk_index = 0
    \/ b.receiving_image /\ i.key = b.expected_key /\ i.chunk_index = b.expected_chunk

ModuleBase(b, i) == IF i.chunk_index = 0 THEN <<>> ELSE b.image_buffer

(***************************************************************************)
(* A V2 upload at the size of the device: the reassembly buffer holds the  *)
(* largest image of the device, and the host fills its output reports.     *)
(***************************************************************************)
\* DeviceConfig::max_image_size
Device_max_image_size(d) ==
    LET display == Device_display_config(d) IN
    IF display.format = "Bmp"
    THEN 54 + (display.image_width * display.image_height * 3)
    ELSE (display.image_width * display.image_height) \div 2

\* DeviceConfig::output_report_size
Device_output_report_size == 1024

\* The capacity of the V2 reassembly buffer: the largest image of the
\* Original V2, the smallest of the V2 devices.
V2ImageProcessingBufferSize == Device_max_image_size("OriginalV2")

\* The payload of an output report filled to its end.
FullPayload(b) == Fill(Device_output_report_size - 8, b)

UploadPayloads == {<<>>, <<170, 187>>, FullPayload(170), FullPayload(187)}

V2UploadInputs ==
    UNION { { [kind |-> "v2", form |-> f, key |-> k, is_last |-> l,
               payload_len |-> n, sequence |-> s, payload |-> pl] :
                f \in {"full", "stripped"}, k \in Keys, l \in {0, 1},
                s \in 0..MaxSeq, n \in {1, Len(pl)} } : pl \in UploadPayloads }

\* What the reports sent so far describe: the key and the next sequence
\* number of the upload under way, the payload bytes of its reports, each
\* cut to its payload_len, and the image a last report has just closed.
NoUpload == [active |-> FALSE, key |-> 0, next |-> 0, bytes |-> <<>>, image |-> <<>>]

UploadAfter(u, i, cap) ==
    LET started == IF i.sequence = 0
                   THEN [NoUpload EXCEPT !.active = TRUE, !.key = i.key]
                   ELSE [u EXCEPT !.image = <<>>]
        bytes == started.bytes \o V2Copied(i)
    IN IF ~(started.active /\ i.key = started.key /\ i.sequence = started.next)
       THEN NoUpload
       ELSE IF Len(bytes) > cap THEN NoUpload
       ELSE IF i.is_last = 1 THEN [NoUpload EXCEPT !.image = bytes]
       ELSE [started EXCEPT !.bytes = bytes, !.next = @ + 1]

\* One report of an upload handed to the V2 handler of the device.
V2Upload ==
    /\ family = "V2"
    /\ input = NoInput
    /\ \E i \in V2UploadInputs :
         LET r == V2_process_image_packet(v2, InputBytes(i), V2ImageProcessingBufferSize,
                                          overflow_checks) IN
         /\ input' = i
         /\ before' = v2
         /\ v2' = r.h
         /\ result' = r.result
         /\ upload' = IF V2Recognised(i)
                      THEN UploadAfter(upload, i, V2ImageProcessingBufferSize)
                      ELSE [upload EXCEPT !.image = <<>>]
    /\ UNCHANGED <<family, overflow_checks, v1, module, module15_32, mapVars, buttonVars,
                   commandVars, pureVars, display_buffer, display_task>>

(***************************************************************************)
(* display_task: the DisplayImage arm, with one ImageBuffer per key.       *)
(***************************************************************************)
DisplayKeys == 0..(STREAMDECK_KEYS - 1)

\* What the packets sent for one key describe: whether an upload is under way,
\* its next sequence number and its payload bytes so far, and, when the last
\* packet has just closed it, the image.
KeyIdle == [active |-> FALSE, next |-> 0, bytes |-> <<>>, closed |-> FALSE, image |-> <<>>]

OwnPackets(u, i) ==
    LET started == IF i.sequence = 0 THEN [KeyIdle EXCEPT !.active = TRUE] ELSE u
        bytes == started.bytes \o V2Copied(i)
    IN IF ~(started.active /\ i.sequence = started.next) THEN KeyIdle
       ELSE IF i.is_last = 1 THEN [KeyIdle EXCEPT !.closed = TRUE, !.image = bytes]
       ELSE [started EXCEPT !.bytes = bytes, !.next = @ + 1, !.closed = FALSE]

NoPacket == [kind |-> "none"]
NotShown == [shown |-> FALSE]
Shown(key_id, image) == [shown |-> TRUE, key_id |-> key_id, image |-> image]

\* "let mut image_buffers: [ImageBuffer; STREAMDECK_KEYS]", each ::new()
DisplayTaskNew ==
    [image_buffers |-> [k \in DisplayKeys |-> ImageBuffer_new],
     uploads |-> [k \in DisplayKeys |-> KeyIdle],
     packet |-> NoPacket,
     display_image |-> NotShown]

\* The DisplayImage commands explored: the output report as the USB task
\* copied it, with the key of its header, for the keys of two uploads and for
\* a key the display does not have.
DisplayPackets ==
    UNION { { [kind |-> "v2", form |-> "full", key |-> k, is_last |-> l,
               payload_len |-> Len(pl), sequence |-> s, payload |-> pl] :
                k \in {0, 1, STREAMDECK_KEYS}, l \in {0, 1}, s \in {0, 1} } :
            pl \in {<<170, 187>>, FullPayload(187)} }

\* display_task, "DisplayCommand::DisplayImage { key_id, data } =>"
DisplayTaskImage ==
    /\ family = "Display"
    /\ \E i \in DisplayPackets :
         LET key_id == i.key
             r == ImageBuffer_add_packet(display_task.image_buffers[key_id], InputBytes(i),
                                         IMAGE_BUFFER_SIZE, overflow_checks)
         IN display_task' =
              IF key_id < STREAMDECK_KEYS
              THEN [image_buffers |->
                      [display_task.image_buffers EXCEPT
                         ![key_id] = IF r.result = "Ok(true)" THEN ImageBuffer_reset(r.b)
                                     ELSE r.b],
                    uploads |->
                      [display_task.uploads EXCEPT ![key_id] = OwnPackets(@, i)],
                    packet |-> i,
                    display_image |-> IF r.result = "Ok(true)" THEN Shown(key_id, r.b.data)
                                      ELSE NotShown]
              ELSE [display_task EXCEPT !.packet = i, !.display_image = NotShown]
    /\ UNCHANGED <<protoVars, mapVars, buttonVars, commandVars, pureVars, display_buffer,
                   upload>>

(***************************************************************************)
(* C1: V2 sequence enforcement.  After sequence 0 for key k was accepted,  *)
(* a report for k with sequence 2 is dropped and leaves the handler idle   *)
(* with no Complete result; while idle every report that is not sequence 0 *)
(* is dropped too, so the upload never completes; a sequence-0 report then *)
(* starts a fresh upload, and reports arriving in order complete it with   *)
(* the bytes of that upload.                                               *)
(***************************************************************************)
V2AfterFirst(b) ==
    b.receiving_image /\ b.expected_sequence = 1

C1_V2SequenceEnforcement ==
    V2Recognised(input) =>
      /\ (V2AfterFirst(before) /\ input.key = before.expected_key /\ input.sequence = 2)
            => (v2 = V2New /\ result = Incomplete)
      /\ (~before.receiving_image /\ input.sequence # 0)
            => (v2 = V2New /\ result = Incomplete)
      /\ (before = V2New /\ input.sequence = 0 /\ input.is_last = 0
            /\ Len(V2Copied(input)) <= BufCap)
            => /\ v2 = [image_buffer |-> V2Copied(input), receiving_image |-> TRUE,
                        expected_key |-> input.key, expected_sequence |-> 1]
               /\ result = Incomplete
      /\ (before.receiving_image /\ input.sequence # 0
            /\ input.key = before.expected_key
            /\ input.sequence = before.expected_sequence
            /\ Len(before.image_buffer) + Len(V2Copied(input)) <= BufCap)
            => IF input.is_last = 1
               THEN /\ result = Complete(before.image_buffer \o V2Copied(input))
                    /\ v2 = V2New
               ELSE /\ result = Incomplete
                    /\ v2 = [before EXCEPT
                               !.image_buffer = @ \o V2Copied(input),
                               !.expected_sequence = @ + 1]

\* A sequence-2 report for the key of an upload that has had sequence 0 only.
C1_Witness_Gap ==
    /\ V2Recognised(input)
    /\ V2AfterFirst(before)
    /\ before.image_buffer # <<>>
    /\ input.key = before.expected_key
    /\ input.sequence = 2
    /\ v2 = V2New

V1Overflows(b, i) ==
    \/ i.packet_num = 1 /\ Len(i.payload) > BufCap
    \/ /\ i.packet_num = 2
       /\ b.receiving_image
       /\ i.key = b.expected_key
       /\ Len(b.image_buffer) + Len(i.payload) > BufCap

V2Overflows(b, i) ==
    V2Accepts(b, i) /\ Len(V2Base(b, i)) + Len(V2Copied(i)) > BufCap

ModuleOverflows(b, i) ==
    ModuleAccepts(b, i) /\ Len(ModuleBase(b, i)) + Len(ModuleCopied(i)) > ModuleBufCap

C3_OverflowSafety ==
    /\ Len(v1.image_buffer) <= BufCap
    /\ Len(v2.image_buffer) <= BufCap
    /\ Len(module.image_buffer) <= ModuleBufCap
    /\ (V1Recognised(input) /\ V1Overflows(before, input))
          => (v1 = V1New /\ result = Unhandled)
    /\ (V2Recognised(input) /\ V2Overflows(before, input))
          => (v2 = V2New /\ result = Incomplete)
    /\ (ModuleRecognised(input) /\ ModuleOverflows(before, input))
          => (module = ModuleNew /\ result = Incomplete)

\* An in-sequence V2 report whose payload does not fit behind a full buffer.
C3_Witness_Overflow ==
    /\ V2Recognised(input)
    /\ input.sequence # 0
    /\ V2Overflows(before, input)
    /\ Len(before.image_buffer) = BufCap

(***************************************************************************)
(* C4: V2 and Module validation.  A report that is not a first one and     *)
(* does not match the receiving flag, the expected key and the expected    *)
(* sequence/chunk is dropped and leaves the handler idle with every field  *)
(* cleared; whenever the handler is left receiving or returns an image,    *)
(* the report passed that validation.                                      *)
(***************************************************************************)
C4_ValidationOrReset ==
    /\ V2Recognised(input) =>
         /\ ~V2Accepts(before, input) => (v2 = V2New /\ result = Incomplete)
         /\ (v2.receiving_image \/ result.kind = "Complete") => V2Accepts(before, input)
    /\ ModuleRecognised(input) =>
         /\ ~ModuleAccepts(before, input) => (module = ModuleNew /\ result = Incomplete)
         /\ (module.receiving_image \/ result.kind = "Complete")
               => ModuleAccepts(before, input)

\* A repeated sequence number for the right key, mid-upload, with bytes
\* buffered: dropped.
C4_Witness_Repeat ==
    /\ V2Recognised(input)
    /\ before.receiving_image
    /\ before.image_buffer # <<>>
    /\ input.key = before.expected_key
    /\ input.sequence # 0
    /\ input.sequence < before.expected_sequence
    /\ v2 = V2New

(***************************************************************************)
(* C5: a first packet always restarts.  In every state a first packet for  *)
(* key k (V1 packet 1, V2 sequence 0, Module chunk 0) returns, and leaves  *)
(* either an upload in progress for k holding that packet's payload alone, *)
(* or the handler idle after completing an image of that payload alone or  *)
(* after finding the payload too large for the buffer.                     *)
(***************************************************************************)
FirstPacketOutcome(h, new, k, copied, cap, done) ==
    \/ /\ h.receiving_image
       /\ h.expected_key = k
       /\ h.image_buffer = copied
       /\ result.kind \in {"Incomplete", "Unhandled"}
    \/ /\ h = new
       /\ result = done
    \/ /\ h = new
       /\ Len(copied) > cap
       /\ result.kind \in {"Incomplete", "Unhandled"}

C5_FirstPacketRestarts ==
    /\ (V1Recognised(input) /\ input.packet_num = 1)
          => /\ FirstPacketOutcome(v1, V1New, input.key, input.payload, BufCap, NoResult)
             /\ v1 # V1New \/ Len(input.payload) > BufCap
    /\ (V2Recognised(input) /\ input.sequence = 0)
          => FirstPacketOutcome(v2, V2New, input.key, V2Copied(input), BufCap,
                                Complete(V2Copied(input)))
    /\ (ModuleRecognised(input) /\ input.chunk_index = 0)
          => FirstPacketOutcome(module, ModuleNew, input.key, ModuleCopied(input),
                                ModuleBufCap, Complete(CompleteImage(ModuleCopied(input))))

(***************************************************************************)
(* C6: V1 ignores what it does not expect.  A recognised report that is    *)
(* neither packet 1 nor a packet 2 for the expected key while receiving    *)
(* returns Unhandled and leaves the handler's state as it was.             *)
(***************************************************************************)
V1Unexpected(b, i) ==
    /\ i.packet_num # 1
    /\ ~(i.packet_num = 2 /\ b.receiving_image /\ i.key = b.expected_key)

C6_V1IgnoresUnexpected ==
    (V1Recognised(input) /\ V1Unexpected(before, input))
        => (result = Unhandled /\ v1 = before)

\* Packet 2 for another key while an upload with bytes buffered is open.
C6_Witness_OtherKey ==
    /\ V1Recognised(input)
    /\ before.receiving_image
    /\ before.image_buffer # <<>>
    /\ input.packet_num = 2
    /\ input.key # before.expected_key
    /\ v1 = before

(***************************************************************************)
(* C7: no output report panics.  For the handlers the dispatcher creates   *)
(* (V1, V2, Module-6, Module-15/32) the output-report parse call returns   *)
(* a result for every report, the empty one included.                      *)
(***************************************************************************)
C7_NoPanic ==
    family \in {"V1", "V2", "Module6Keys", "Module15_32Keys"}
        => result.kind # "Panic"

(***************************************************************************)
(* C8: Module chunked upload.  Chunk 0 of an image sent as several         *)
(* full-size 1024-byte reports is not the last chunk: it returns           *)
(* Incomplete and leaves the upload in progress with its payload buffered. *)
(***************************************************************************)
C8_ModuleFirstChunkIncomplete ==
    (ModuleRecognised(input) /\ input.len = FULL_REPORT_SIZE /\ input.chunk_index = 0)
        => /\ result = Incomplete
           /\ module.receiving_image
           /\ module.image_buffer = Fill(FULL_REPORT_SIZE - MODULE_DATA_START, input.fill)

(***************************************************************************)
(* C9: button mapping.  For V1 and V2 and every layout of at most 32 keys, *)
(* map_buttons with left_to_right copies physical key i to logical key i,  *)
(* and otherwise copies the physical key at (row, col) to the logical key  *)
(* at (row, cols-1-col); every logical key beyond the layout is released   *)
(* and active_count is cols*rows.                                          *)
(***************************************************************************)
C9_MapButtons ==
    (map_call.kind = "map" /\ mapping # NoMapping) =>
      LET cols == map_call.cols
          rows == map_call.rows
          mapped == mapping.mapped_buttons
      IN /\ mapping.active_count = cols * rows
         /\ map_call.left_to_right =>
              \A i \in 0..(cols * rows - 1) : mapped[i] = (i \in map_call.pressed)
         /\ ~map_call.left_to_right =>
              \A row \in 0..(rows - 1) : \A col \in 0..(cols - 1) :
                 mapped[row * cols + (cols - 1 - col)]
                    = ((row * cols + col) \in map_call.pressed)
         /\ \A j \in ButtonIndices : j >= cols * rows => ~mapped[j]

\* 3x2 right-to-left with physical key 0 down: exactly logical key 2 is down.
C9_Witness_3x2 ==
    /\ map_call.kind = "map"
    /\ map_call.cols = 3
    /\ map_call.rows = 2
    /\ ~map_call.left_to_right
    /\ map_call.pressed = {0}
    /\ mapping # NoMapping
    /\ {j \in ButtonIndices : mapping.mapped_buttons[j]} = {2}

(***************************************************************************)
(* C10: the button channel keeps the latest state.  The button task never  *)
(* waits in its send, and whenever the USB task takes a state from the     *)
(* channel it is the state the button task built last.                     *)
(***************************************************************************)
C10_LatestStateDelivered ==
    [][ /\ button_pc' # "send"
        /\ Len(button_channel') < Len(button_channel)
              => button_state'.buttons = new_state.buttons ]_vars

\* ProtocolHandler::create: one handler, freshly constructed.
(***************************************************************************)
(* Claims about the command channels.                                      *)
(***************************************************************************)
\* The command the host meant by a request, by what the host built.
ExpectedCommand(req) ==
    IF req.name \in {"reset_v1", "reset_v2"} THEN SomeCommand(UsbReset)
    ELSE IF req.name \in {"brightness_v1", "brightness_v2"}
    THEN SomeCommand(UsbSetBrightness(100))
    ELSE IF req.name = "image"
    THEN SomeCommand(UsbImageData(At(req.data, 2), req.data))
    ELSE NoCommand

\* C11: set_report always returns Accepted; it appends the decoded command
\* when the 4-slot USB command channel has room, and when the channel is full
\* it drops the new command and leaves the queued ones unchanged and in order.
C11_FullChannelDropsNewest ==
    [][\A req \in HidRequests(host) :
         HidSetReportOf(req) =>
           /\ hid_response' = "Accepted"
           /\ usb_command_channel' =
                IF /\ ExpectedCommand(req).some
                   /\ Len(usb_command_channel) < USB_COMMAND_CHANNEL_DEPTH
                THEN Append(usb_command_channel, ExpectedCommand(req).cmd)
                ELSE usb_command_channel]_vars

C11_Witness_Dropped ==
    /\ hid_dropped
    /\ hid_response = "Accepted"
    /\ Len(usb_command_channel) = USB_COMMAND_CHANNEL_DEPTH
    /\ usb_command_channel[1].cmd = "ImageData"
    /\ usb_command_channel[2].cmd = "Reset"

\* C12: a command processor that takes a Reset or SetBrightness while the
\* 8-slot display channel is full skips the enqueue and is back at receiving
\* the next USB command.
C12_SkipsWhenDisplayFull ==
    [][(CommandReceive /\ Len(display_channel) = DISPLAY_CHANNEL_DEPTH) =>
         /\ command_pc' = "receive"
         /\ display_channel' = display_channel]_vars

\* C13: when the command processor takes an ImageData command, the
\* DisplayImage command with the same key and bytes is enqueued on the
\* display channel or is the send it waits in.
C13_ImageForwarded ==
    [][(/\ usb_command_channel # <<>>
        /\ Head(usb_command_channel).cmd = "ImageData"
        /\ CommandReceive) =>
         LET image == Head(usb_command_channel)
             forwarded == DisplayImage(image.key_id, image.data)
         IN \/ display_channel' = Append(display_channel, forwarded)
            \/ display_command' = forwarded]_vars


(***************************************************************************)
(* Claims about the device table and the device selection.                 *)
(***************************************************************************)
Supported(pid) == pid \in Range(Device_supported_pids)

\* C14: usb_config of a device carries the device's pid, from_pid of that pid
\* is the device, distinct devices have distinct pids, and from_pid returns
\* none for a pid outside supported_pids.
C14_PidRoundTrip ==
    /\ call.op = "usb_config" =>
         /\ returned.pid = Device_pid(call.device)
         /\ Device_from_pid(returned.pid) = Some(call.device)
    /\ call.op = "from_pid" =>
         /\ ~Supported(call.pid) => returned = None
         /\ returned.some => Device_pid(returned.value) = call.pid
    /\ \A d1, d2 \in Devices : d1 # d2 => Device_pid(d1) # Device_pid(d2)

\* C15: the stored PID is always a supported one; set_device_pid with an
\* unsupported id returns the error and leaves the stored PID unchanged, with
\* a supported id it stores it; get_current_device returns the device of the
\* stored PID and never takes the Mini fallback.
C15_StoredPidSupported ==
    /\ Supported(current_device_pid)
    /\ call.op = "set_device_pid" =>
         IF Supported(call.pid)
         THEN returned = "Ok" /\ current_device_pid = call.pid
         ELSE returned = "Err" /\ current_device_pid = call.stored
    /\ call.op = "get_current_device" =>
         /\ ~returned.fallback
         /\ Device_pid(returned.device) = call.stored
         /\ current_device_pid = call.stored

C15_Witness_Rejected ==
    /\ call.op = "set_device_pid"
    /\ call.pid = 133
    /\ call.stored = 132
    /\ returned = "Err"

(***************************************************************************)
(* Claims about feature reports.                                           *)
(***************************************************************************)
\* C16: the V1 handler decodes report 0x05 with bytes 0x55, 0xAA, 0xD1, 0x01, v
\* after the id to SetBrightness{v}, to Reset when v is the reset-magic byte,
\* and to no command with any other leading bytes.
C16_V1Brightness ==
    (family = "V1" /\ call.op = "handle_feature_report" /\ call.report_id = 5) =>
      IF Len(call.data) >= 6 /\ SubSeq(call.data, 2, 5) = <<85, 170, 209, 1>>
      THEN returned = IF call.data[6] = STREAMDECK_BRIGHTNESS_RESET_MAGIC
                      THEN Some(SetReset)
                      ELSE Some(SetBrightness(call.data[6]))
      ELSE returned = None

C16_Witness_Brightness100 ==
    /\ family = "V1"
    /\ call.op = "handle_feature_report"
    /\ call.report_id = 5
    /\ call.data = <<5, 85, 170, 209, 1, 100>>
    /\ returned = Some(SetBrightness(100))

\* The report ids a family's handle_feature_report knows, and for each the
\* command bytes it knows.
KnownSetCommands(f, report_id) ==
    CASE f \in {"V1", "Module", "Module6Keys"} /\ report_id = 5 -> {85}
      [] f \in {"V1", "Module", "Module6Keys"} /\ report_id = 11 -> {99, 162}
      [] f = "V2" /\ report_id = 3 -> {2, 8}
      [] f = "Module15_32Keys" /\ report_id = 3 -> {8}
      [] OTHER -> {}

\* Where the command byte stands: Module 6 payloads leave the report id out.
HasKnownCommand(f, report_id, data) ==
    LET at == IF f = "Module6Keys" THEN 1 ELSE 2
    IN Len(data) >= at /\ data[at] \in KnownSetCommands(f, report_id)

\* The report ids a family's get_feature_report knows.
KnownGetIds(f, idle_id) ==
    CASE f = "V1" -> {3, 4, 5, 7, 160, 161, 162, idle_id}
      [] f = "V2" -> {3, 160, 161, 162, idle_id}
      [] f = "Module" -> {}
      [] f = "Module6Keys" -> {3, 8, 160, 161, 162, 163}
      [] f = "Module15_32Keys" -> {4, 5, 6, 7, 10}

\* C17: handle_feature_report with a report id or a command byte the handler
\* does not know returns no command, get_feature_report with a report id it
\* does not know returns no response, and neither changes the reassembly
\* state.
C17_UnknownReportIgnored ==
    /\ call.op = "handle_feature_report" =>
         /\ <<v1, v2, module>> = call.handler
         /\ ~HasKnownCommand(family, call.report_id, call.data) => returned = None
    /\ call.op = "get_feature_report" =>
         /\ <<v1, v2, module>> = call.handler
         /\ call.report_id \notin KnownGetIds(family, call.idle_id) =>
              returned.kind = "None"

C17_Witness_MidUpload ==
    /\ family = "V2"
    /\ v2 = V2Mid
    /\ call.op = "handle_feature_report"
    /\ call.report_id = 3
    /\ call.data = <<3, 9>>
    /\ returned = None

\* The 32-byte envelope: id, length byte 0x0C, type tag "13", a zero, the
\* ASCII text from offset 5, zeros.
Envelope32(report_id, ascii) ==
    <<report_id, 12, 49, 51, 0>> \o ascii \o Fill(32 - 5 - Len(ascii), 0)

AsciiOf(report_id) == IF report_id = 3 THEN USB_SERIAL ELSE Version_3_00_000

V1GetsEnvelope ==
    /\ family = "V1"
    /\ call.op = "get_feature_report"
    /\ Len(call.buf) >= 32

C19_ResetIdempotent ==
    [][/\ HandlerReset =>
            /\ <<v1', v2', module'>> = <<V1New, V2New, ModuleNew>>
            /\ V1_reset_image_state(v1') = v1'
            /\ V2_reset_image_state(v2') = v2'
            /\ Module_reset_image_state(module') = module'
            /\ V1_reset_image_state(V1_reset_image_state(v1)) = v1'
            /\ V2_reset_image_state(V2_reset_image_state(v2)) = v2'
            /\ Module_reset_image_state(Module_reset_image_state(module)) = module'
       /\ ImageBufferReset =>
            /\ display_buffer' = ImageBuffer_new
            /\ ImageBuffer_reset(display_buffer') = display_buffer'
            /\ ImageBuffer_reset(ImageBuffer_reset(display_buffer)) = display_buffer'
      ]_vars

C19_Witness_ResetMidUpload ==
    /\ family = "V2"
    /\ input.kind = "reset"
    /\ before.receiving_image
    /\ before.expected_sequence = 1
    /\ v2 = V2New

(***************************************************************************)
(* Claims about the image transformations.                                 *)
(***************************************************************************)
\* C20: rotate_270 applied four times, width and height swapped after each
\* call, to a W x H RGB888 image that fits the output buffer returns the
\* image.
C20_Rotate270FourTimes ==
    (/\ call.op = "image"
     /\ returned.times = 4
     /\ Len(call.image.data) <= IMAGE_BUFFER_SIZE) =>
      /\ returned.data = call.image.data
      /\ returned.width = call.image.width
      /\ returned.height = call.image.height

C20_Witness_3x2 ==
    /\ call.op = "image"
    /\ call.image = Image(Counting(3, 2), 3, 2)
    /\ returned.times = 4
    /\ returned.data = Counting(3, 2)

\* C21: apply_transformations returns the image rotated by rotate_270 if
\* needs_rotation, then flipped by flip_horizontal if flip_h, then flipped by
\* flip_vertical if flip_v, and the image itself when no flag is set.
C21_ApplyTransformationsOrder ==
    call.op = "apply_transformations" =>
      LET width == call.image.width
          height == call.image.height
          rotated == IF call.needs_rotation
                     THEN rotate_270(call.image.data, width, height)
                     ELSE call.image.data
          flipped_h == IF call.flip_h
                       THEN flip_horizontal(rotated, width, height)
                       ELSE rotated
          flipped_v == IF call.flip_v
                       THEN flip_vertical(flipped_h, width, height)
                       ELSE flipped_h
      IN returned.data = flipped_v

\* C22: for the key image of every device, rotate_270, flip_horizontal,
\* flip_vertical and apply_transformations return 3 * width * height bytes.
C22_KeyImageKeepsEveryPixel ==
    (/\ call.image \in KeyImages
     /\ returned.times = 1
     /\ call.op \in {"image", "flip_horizontal", "flip_vertical",
                     "apply_transformations"}) =>
      Len(returned.data) = 3 * call.image.width * call.image.height

\* C23: rgb888_to_rgb565 returns two bytes for every pixel, in pixel order:
\* the high byte, made of the 5 top bits of r and the 3 top bits of g, then
\* the low byte, made of bits 4..2 of g and the 5 top bits of b; pure red
\* gives F8 00.
C23_Rgb565Packing ==
    call.op = "rgb888_to_rgb565" =>
      LET rgb888 == call.image.data
          n == Len(rgb888) \div 3
      IN /\ Len(returned.data) = 2 * n
         /\ \A k \in 0..(n - 1) :
              LET r == At(rgb888, 3 * k)
                  g == At(rgb888, 3 * k + 1)
                  b == At(rgb888, 3 * k + 2)
              IN /\ At(returned.data, 2 * k) = 8 * (r \div 8) + (g \div 32)
                 /\ At(returned.data, 2 * k + 1) = 32 * ((g \div 4) % 8) + (b \div 8)
         /\ rgb888 = <<255, 0, 0>> => returned.data = <<248, 0>>

(***************************************************************************)
(* Claims about the device table and the handler built for a device.       *)
(***************************************************************************)
\* C24: the button layout of every Device has total_keys = cols * rows and
\* at most 32 keys.
C24_ButtonLayoutTotal ==
    call.op = "button_layout" =>
      /\ returned.total_keys = returned.cols * returned.rows
      /\ returned.total_keys <= MAX_BUTTONS

C24_Witness_Xl32 ==
    /\ call = [op |-> "button_layout", device |-> "Xl"]
    /\ returned.cols = 8
    /\ returned.rows = 4
    /\ returned.total_keys = 32

\* C25: for every Device, ProtocolHandler::create is defined on the
\* protocol of the device's usb_config and builds the handler whose version
\* is that protocol.
C25_CreateMatchesProtocol ==
    call.op = "create" =>
      /\ returned.created.some
      /\ returned.version = Some(call.protocol)

\* C26: the Module 15/32 handler answers every output report, the image
\* commands 0x07, 0x08 and 0x09 included, with Incomplete; no sequence of
\* reports gives a completed image or changes the handler.
C26_Module15_32NeverCompletes ==
    family = "Module15_32Keys" =>
      /\ module15_32 = Module15_32New
      /\ input # NoInput => (result = Incomplete /\ before = module15_32)

C26_Witness_LastKeyImagePacket ==
    /\ family = "Module15_32Keys"
    /\ input.kind = "v2"
    /\ input.is_last = 1
    /\ input.sequence = 0
    /\ Len(input.payload) > 0
    /\ result = Incomplete

(***************************************************************************)
(* Claims about whole uploads.                                             *)
(***************************************************************************)
\* C27: the image a V2 Complete carries is, byte for byte and whole, the
\* payload bytes (each report's first min(payload_len, bytes after the
\* header)) of the reports accepted since the last sequence-0 report, in
\* order, and nothing of an earlier upload.
C27_V2CompleteIsTheUpload ==
    (family = "V2" /\ result.kind = "Complete") => result.image = upload.image

\* C28: for the V1 and V2 handlers a completion leaves the handler idle
\* (not receiving, buffer empty), and an idle handler answers every report
\* that is not a first packet without a completion and stays idle: an upload
\* completes at most once, and nothing more is taken until a first packet.
Completion == result.kind \in {"Complete", "KeyImageComplete"}

FirstPacket(i) ==
    \/ V1Recognised(i) /\ i.packet_num = 1
    \/ V2Recognised(i) /\ i.sequence = 0

Idle(h) == ~h.receiving_image /\ h.image_buffer = <<>>

C28_OneCompletionPerUpload ==
    (family \in {"V1", "V2"} /\ input # NoInput) =>
      LET h == IF family = "V1" THEN v1 ELSE v2 IN
      /\ Completion => Idle(h)
      /\ (Idle(before) /\ ~FirstPacket(input)) => (~Completion /\ Idle(h))

\* A last packet with the next sequence number, sent to an idle V2 handler.
C28_Witness_LastPacketWhenIdle ==
    /\ V2Recognised(input)
    /\ Idle(before)
    /\ input.sequence = 1
    /\ input.is_last = 1
    /\ input.payload # <<>>
    /\ result = Incomplete
    /\ Idle(v2)

\* C29: handle_feature_report, get_feature_report, map_buttons and
\* format_button_report leave the reassembly state of the handler as it was,
\* and an upload whose reports come between such calls completes with the
\* bytes of its reports.
C29_TrafficKeepsUpload ==
    /\ (input = NoInput /\ call.op \in {"handle_feature_report", "get_feature_report",
                                         "format_button_report"}) =>
         <<v1, v2, module>> = call.handler
    /\ (V2Recognised(input) /\ result.kind = "Complete") =>
         result.image = V2Base(before, input) \o V2Copied(input)
    /\ (V1Recognised(input) /\ result.kind = "KeyImageComplete") =>
         /\ result.key_id = input.key
         /\ result.image = before.image_buffer \o input.payload

\* The last report of a V2 upload arrives right after a button report that
\* was built in the middle of the upload, and the image is complete.
C29_Witness_UploadAroundButtonReport ==
    /\ family = "V2"
    /\ call.op = "format_button_report"
    /\ call.handler[2].receiving_image
    /\ Len(call.handler[2].image_buffer) >= 1
    /\ before = call.handler[2]
    /\ result.kind = "Complete"
    /\ result.image = call.handler[2].image_buffer \o input.payload
    /\ Len(input.payload) >= 1

\* The same report as the host's stack delivers it in the other form: with the
\* report id 0x02 in front, or without it.
OtherForm(i) == [i EXCEPT !.form = IF i.form = "full" THEN "stripped" ELSE "full"]

\* C30: for the V1 and V2 handlers a report delivered without the leading
\* report id 0x02 gives the result and leaves the handler as the same report
\* delivered in full does, whatever the length of its payload, empty included.
C30_StrippedEqualsFull ==
    /\ (family = "V1" /\ input.kind = "v1") =>
         LET r == V1_parse_output_report(before, InputBytes(OtherForm(input)), BufCap)
         IN r.h = v1 /\ r.result = result
    /\ (family = "V2" /\ input.kind = "v2") =>
         LET r == V2_process_image_packet(before, InputBytes(OtherForm(input)), BufCap,
                                          overflow_checks)
         IN r.h = v2 /\ r.result = result

\* The report reaches "self.expected_sequence += 1": it parsed, key and
\* sequence were the expected ones and the buffer took the payload.
V2Counts(h, data) ==
    LET p == V2Parse(data) IN
    /\ p.parsed
    /\ V2Valid(V2Start(h, p), p)
    /\ \/ V2CopyLen(p, data) = 0
       \/ ExtendFromSlice(V2Start(h, p).image_buffer,
                          Slice(data, p.data_start, p.data_start + V2CopyLen(p, data)),
                          BufCap).ok

\* The report reaches "self.expected_chunk += 1" and the completion test.
ModuleCounts(h, data) ==
    LET p == ModuleParse(data) IN
    /\ p.parsed
    /\ ModuleValid(ModuleStart(h, p, data), p)
    /\ \/ ModuleCopyLen(p, data) = 0
       \/ ExtendFromSlice(ModuleStart(h, p, data).image_buffer,
                          Slice(data, p.data_start, p.data_start + ModuleCopyLen(p, data)),
                          ModuleBufCap).ok

\* The fields the counters are computed from when a Module report is counted.
ModuleCounted(h, data) == ModuleStart(h, ModuleParse(data), data)

\* C31: whenever a report is counted, the V2 expected_sequence is below
\* 65535 and the Module expected_chunk below 255 before the increment, and
\* the Module total_chunks is at least 1 when total_chunks - 1 is computed;
\* no report halts the handler.
C31_CountersStayInRange ==
    /\ (family = "V2" /\ input # NoInput /\ V2Counts(before, InputBytes(input))) =>
         /\ V2Start(before, V2Parse(InputBytes(input))).expected_sequence < 65535
         /\ result.kind # "Panic"
    /\ (family = "Module" /\ input # NoInput /\ ModuleCounts(before, InputBytes(input))) =>
         /\ ModuleCounted(before, InputBytes(input)).expected_chunk < 255
         /\ ModuleCounted(before, InputBytes(input)).total_chunks >= 1
         /\ result.kind # "Panic"

\* C32: for every handler, report id and buffer length, get_feature_report
\* returns without panicking, leaves the buffer at its length and returns at
\* most that length.
C32_GetFeatureReportStaysInBuffer ==
    call.op = "get_feature_report" =>
      /\ returned.kind # "Panic"
      /\ Len(returned.buf) = Len(call.buf)
      /\ returned.kind = "Some" => returned.len <= Len(call.buf)

\* 1 for a key that is down, 0 for one that is not.
KeyByte(down) == IF down THEN 1 ELSE 0

\* C33: the handler created for the 32-key Module device reports all 32
\* keys: map_buttons carries the physical keys 15..31 into mapped_buttons, and
\* format_button_report writes 0x01, 0x00, the length 32 in little-endian
\* order and 32 key states.
C33_Module32ReportsAllKeys ==
    (/\ call.op = "button_report"
     /\ call.device = "Module32"
     /\ call.version \in {Device_usb_config("Module32").protocol, "Module15_32Keys"}) =>
      /\ returned.created
      /\ \A k \in 15..31 : returned.buttons.mapped_buttons[k] = (k \in call.pressed)
      /\ returned.written.kind = "Ok"
      /\ SubSeq(returned.written.report, 1, 4) = <<1, 0, 32, 0>>
      /\ \A k \in 0..31 : returned.written.report[5 + k] = KeyByte(k \in call.pressed)

\* The bytes in front of the key states in a family's input report.
ReportHeader(version) ==
    CASE version = "V1" -> 1
      [] version = "V2" -> 3
      [] version = "Module6Keys" -> 1
      [] version = "Module15_32Keys" -> 4

\* C34: with the mapping of map_buttons and a buffer of
\* input_report_size(total_keys) bytes, format_button_report of every handler
\* returns input_report_size(total_keys), and after the header byte i is 1
\* if logical key i is down and 0 if not for each i < total_keys, and the
\* bytes after the keys are zero.
C34_FormatFillsInputReport ==
    (call.op = "button_report" /\ returned.created) =>
      LET total_keys == Device_button_layout(call.device).total_keys
          header == ReportHeader(call.version)
      IN /\ returned.written.kind = "Ok"
         /\ returned.written.len = returned.size
         /\ \A i \in 0..(total_keys - 1) :
              returned.written.report[header + 1 + i] =
                KeyByte(returned.buttons.mapped_buttons[i])
         /\ \A j \in (header + total_keys + 1)..returned.size :
              returned.written.report[j] = 0

\* C35: Device::input_report_size() of every device is
\* input_report_size(total_keys) of the handler created for the device's
\* protocol.
C35_DeviceSizeIsHandlerSize ==
    (call.op = "button_report" /\ call.version = Device_usb_config(call.device).protocol) =>
      /\ returned.created
      /\ returned.device_size = returned.size

\* C36: the feature-report buffer that the V1 handler decodes under report
\* id 0x05 as SetBrightness{v} is decoded as SetBrightness{v} by the Module 6
\* handler too.
C36_BrightnessBufferAgreed ==
    (/\ family = "Module6Keys"
     /\ call.op = "handle_feature_report"
     /\ call.report_id = FEATURE_REPORT_BRIGHTNESS_V1
     /\ V1_handle_feature_report(call.report_id, call.data)
          \in {Some(SetBrightness(v)) : v \in 0..255}) =>
      returned = V1_handle_feature_report(call.report_id, call.data)

\* C37: the display task keeps one buffer per key, so the packets of an
\* upload for one key, sent in order and interleaved with those of another
\* key, complete it: on its last packet display_image is called with that key
\* and with the payloads of that key's packets, and it is called with nothing
\* else.
C37_PerKeyReassembly ==
    (display_task.packet # NoPacket /\ display_task.packet.key < STREAMDECK_KEYS) =>
      LET key_id == display_task.packet.key
          own == display_task.uploads[key_id]
      IN display_task.display_image =
           IF own.closed THEN Shown(key_id, own.image) ELSE NotShown

\* C38: core 0 start-up for a Mini or Revised Mini, entered with the input mode
\* at its default Matrix, spawns the direct-input button task with exactly six
\* input pins, one per key.
C38_MiniGetsSixDirectInputs ==
    (call.op = "init_hardware_tasks_core0" /\ IsMini(call.device) /\ call.mode = "Matrix") =>
      /\ returned.button_task.task = "button_task_direct"
      /\ Len(returned.button_task.inputs) = 6
      /\ Len(returned.button_task.inputs) = Device_button_layout(call.device).total_keys

\* C39: a key's debounced state changes only on a scan where the raw reading
\* has been at the new value for at least BUTTON_DEBOUNCE_MS since its last raw
\* change; update returns true for a key exactly on the scans where the key's
\* debounced state changes; and the button task puts a state on the button
\* channel, or waits to, only for a scan where some key changed, the state
\* being the debounced state of all keys.
C39_DebouncedChangeAndSend ==
    [][ /\ debouncer' # debouncer =>
              \A k \in ActiveKeyIndices :
                 /\ debouncer'[k].updated <=> debouncer'[k].current # debouncer[k].current
                 /\ debouncer'[k].current # debouncer[k].current =>
                       /\ debouncer'[k].raw = debouncer'[k].current
                       /\ debouncer'[k].since >= BUTTON_DEBOUNCE_MS
        /\ (button_pc' = "send" \/ Len(button_channel') > Len(button_channel)) =>
              \E k \in ActiveKeyIndices : debouncer'[k].updated
        /\ Len(button_channel') > Len(button_channel) =>
              \A k \in ActiveKeyIndices :
                 button_channel'[Len(button_channel')].buttons[k] = debouncer'[k].current
      ]_vars

\* A key has just gone down after its raw reading held for the debounce time,
\* and the state with the key down is on the button channel.
C39_Witness_PressSent ==
    /\ debouncer[0].updated
    /\ debouncer[0].current
    /\ debouncer[0].since >= BUTTON_DEBOUNCE_MS
    /\ button_channel # <<>>
    /\ button_channel[1].buttons[0]

\* The states the button task can send: every set of active keys down.
SentStates ==
    {[ButtonState_new(ActiveKeys) EXCEPT
        !.buttons = [i \in ButtonIndices |-> i \in down], !.changed = TRUE] :
       down \in SUBSET ActiveKeyIndices}

\* The command processor waits in its send to the full display channel.
CommandProcessorBlocked ==
    /\ command_pc = "send"
    /\ Len(display_channel) = DISPLAY_CHANNEL_DEPTH

Families == {"V1", "V2", "Module", "Module6Keys", "Module15_32Keys"}

ProtoIdle ==
    /\ family = "V1"
    /\ overflow_checks = FALSE
    /\ v1 = V1New
    /\ v2 = V2New
    /\ module = ModuleNew
    /\ module15_32 = Module15_32New
    /\ input = NoInput
    /\ before = NoInput
    /\ result = NoResult

MapIdle ==
    /\ map_call = NoCall
    /\ mapping = NoMapping

\* run_matrix_task and button_fut before their first step; BUTTON_CHANNEL
\* is empty.
ButtonsNew ==
    /\ debouncer = [k \in ActiveKeyIndices |-> DebounceNew]
    /\ button_pc = "scan"
    /\ new_state = ButtonState_new(ActiveKeys)
    /\ button_channel = <<>>
    /\ usb_pc = "init"
    /\ button_state = NoButtonState
    /\ hid_report = <<>>

\* Both channels empty, the command processor about to receive.
CommandsNew ==
    /\ usb_command_channel = <<>>
    /\ display_channel = <<>>
    /\ command_pc = "receive"
    /\ display_command = NoDisplayCommand
    /\ hid_response = "none"
    /\ hid_dropped = FALSE

CommandsIdle ==
    /\ host = "reset"
    /\ CommandsNew

\* CURRENT_DEVICE_PID as initialised; no function called yet.
PureIdle ==
    /\ current_device_pid = 99
    /\ call = NoFunction
    /\ returned = NoReturn
    /\ display_buffer = ImageBuffer_new
    /\ upload = NoUpload
    /\ display_task = DisplayTaskNew

\* One handler, freshly constructed, in a build that traps integer overflow
\* or in one that wraps.
Init ==
    /\ family \in Families
    /\ overflow_checks \in BOOLEAN
    /\ v1 = V1New
    /\ v2 = V2New
    /\ module = ModuleNew
    /\ module15_32 = Module15_32New
    /\ input = NoInput
    /\ before = NoInput
    /\ result = NoResult
    /\ MapIdle
    /\ ButtonsNew
    /\ CommandsIdle
    /\ PureIdle

Next ==
    \/ V1Receive
    \/ V2Receive
    \/ ModuleReceive
    \/ Module6Receive
    \/ Module15_32Receive
    \/ ProcessReturn

Spec == Init /\ [][Next]_vars

\* map_buttons applied once to each call.
InitMap ==
    /\ ProtoIdle
    /\ map_call \in {c \in MapCalls : c.cols * c.rows <= MAX_BUTTONS}
    /\ mapping = NoMapping
    /\ ButtonsNew
    /\ CommandsIdle
    /\ PureIdle

NextMap ==
    \/ V1MapButtons
    \/ V2MapButtons

SpecMap == InitMap /\ [][NextMap]_vars

\* The button task and the USB task's button future, interleaved.
InitButtons ==
    /\ ProtoIdle
    /\ MapIdle
    /\ ButtonsNew
    /\ CommandsIdle
    /\ PureIdle

NextButtons ==
    \/ ButtonScan
    \/ ButtonSend
    \/ UsbInitialReport
    \/ UsbButtonReport

SpecButtons == InitButtons /\ [][NextButtons]_vars

\* The HID handler, the command processor and the display task, interleaved.
InitCommands ==
    /\ ProtoIdle
    /\ MapIdle
    /\ ButtonsNew
    /\ host \in Hosts
    /\ CommandsNew
    /\ PureIdle

NextCommands ==
    \/ HidSetReport
    \/ CommandReceive
    \/ CommandSend
    \/ DisplayReceive

SpecCommands == InitCommands /\ [][NextCommands]_vars

\* usb_task's join4 and the tasks at the other ends of its channels: the
\* button task, the HID handler, the command processor, the button report
\* sender and the display task.  The executor polls a future that stays ready,
\* so the button report sender takes its steps; the display task may never
\* take a command, which leaves the command processor waiting in its send.
\* The host sends reset requests and the user works key 0 only.
InitUsbTask ==
    /\ ProtoIdle
    /\ MapIdle
    /\ ButtonsNew
    /\ CommandsIdle
    /\ PureIdle

OtherKeysUp == \A k \in ActiveKeyIndices \ {0} : ~debouncer'[k].raw

NextUsbTask ==
    \/ ButtonScan /\ OtherKeysUp
    \/ ButtonSend
    \/ UsbInitialReport
    \/ UsbButtonReport
    \/ HidSetReport
    \/ CommandReceive
    \/ CommandSend
    \/ DisplayReceive

SpecUsbTask ==
    /\ InitUsbTask
    /\ [][NextUsbTask]_vars
    /\ WF_vars(UsbInitialReport)
    /\ WF_vars(UsbButtonReport)

\* The device table queried and the device selected, in any order.
InitDevice ==
    /\ ProtoIdle
    /\ MapIdle
    /\ ButtonsNew
    /\ CommandsIdle
    /\ PureIdle

NextDevice ==
    \/ DeviceUsbConfig
    \/ DeviceButtonLayout
    \/ CreateHandler
    \/ DeviceFromPid
    \/ SetDevicePid
    \/ GetCurrentDevice

SpecDevice == InitDevice /\ [][NextDevice]_vars

\* Button reports and core 0 start-up, one device at a time.
InitReport ==
    /\ ProtoIdle
    /\ MapIdle
    /\ ButtonsNew
    /\ CommandsIdle
    /\ PureIdle

NextReport ==
    \/ DeviceButtonReport
    \/ InitHardwareTasksCore0
    \/ Return

SpecReport == InitReport /\ [][NextReport]_vars

\* The display task taking DisplayImage commands for several keys in any order.
InitDisplay ==
    /\ family = "Display"
    /\ overflow_checks = FALSE
    /\ v1 = V1New
    /\ v2 = V2New
    /\ module = ModuleNew
    /\ module15_32 = Module15_32New
    /\ input = NoInput
    /\ before = NoInput
    /\ result = NoResult
    /\ MapIdle
    /\ ButtonsNew
    /\ CommandsIdle
    /\ PureIdle

NextDisplay == DisplayTaskImage

SpecDisplay == InitDisplay /\ [][NextDisplay]_vars

\* Feature reports set and got on a handler that is idle or in the middle of
\* an upload.
InitFeature ==
    /\ family \in Families
    /\ overflow_checks = FALSE
    /\ \E mid \in BOOLEAN :
         /\ v1 = IF mid THEN V1Mid ELSE V1New
         /\ v2 = IF mid THEN V2Mid ELSE V2New
         /\ module = IF mid THEN ModuleMid ELSE ModuleNew
    /\ module15_32 = Module15_32New
    /\ input = NoInput
    /\ before = NoInput
    /\ result = NoResult
    /\ MapIdle
    /\ ButtonsNew
    /\ CommandsIdle
    /\ PureIdle

NextFeature ==
    \/ HandleFeatureReport
    \/ GetFeatureReport
    \/ Return

SpecFeature == InitFeature /\ [][NextFeature]_vars

\* A handler or an ImageBuffer fed with packets and reset at any moment.
InitReset ==
    /\ family \in {"V1", "V2", "Module", "Display"}
    /\ overflow_checks \in BOOLEAN
    /\ v1 = V1New
    /\ v2 = V2New
    /\ module = ModuleNew
    /\ module15_32 = Module15_32New
    /\ input = NoInput
    /\ before = NoInput
    /\ result = NoResult
    /\ MapIdle
    /\ ButtonsNew
    /\ CommandsIdle
    /\ PureIdle

NextReset ==
    \/ V1Receive
    \/ V2Receive
    \/ ModuleReceive
    \/ ProcessReturn
    \/ ImageBufferAddPacket
    \/ HandlerReset
    \/ ImageBufferReset
    \/ Return

SpecReset == InitReset /\ [][NextReset]_vars

\* Output reports, feature reports and button reports of one connection,
\* handled one after the other by the task that owns the handler.
InitTraffic ==
    /\ Init

\* The feature reports a host sends and asks for while it uploads: brightness,
\* reset and idle time in the forms of each family, version and idle time
\* queries, and ids no handler knows.
TrafficSet ==
    {c \in [op : {"handle_feature_report"}, report_id : {3, 5, 11, 255},
            data : {<<5, 85, 170, 209, 1, 62>>, <<11, 99>>, <<3, 8, 100>>,
                    <<11, 162, 44, 1, 0, 0>>, <<3, 2>>},
            handler : {<<v1, v2, module>>}] : c.data[1] = c.report_id \/ c.report_id = 255}
TrafficGet ==
    [op : {"get_feature_report"}, report_id : {4, 5, 10, 160, 163, 255},
     buf : {Fill(32, 238)}, idle_id : {163}, seconds : {300},
     handler : {<<v1, v2, module>>}]

\* The next output report is handled once the caller has taken the answer of
\* the last call, or while a button report with keys held is on its way out.
ReportOnItsWay ==
    /\ call.op = "format_button_report"
    /\ call.pressed # {}
    /\ returned.len > 0

NextTraffic ==
    \/ /\ call = NoFunction \/ ReportOnItsWay
       /\ \/ V1Receive
          \/ V2Receive
          \/ ModuleReceive
          \/ Module6Receive
          \/ Module15_32Receive
    \/ /\ call = NoFunction
       /\ ProcessReturn
    \/ /\ input = NoInput
       /\ \/ HandleFeatureReport /\ call' \in TrafficSet
          \/ GetFeatureReport /\ call' \in TrafficGet
          \/ ButtonReportCall
    \/ Return

SpecTraffic == InitTraffic /\ [][NextTraffic]_vars

\* The V2 handler of an Original V2, freshly constructed.
InitUpload ==
    /\ family = "V2"
    /\ overflow_checks = FALSE
    /\ v1 = V1New
    /\ v2 = V2New
    /\ module = ModuleNew
    /\ module15_32 = Module15_32New
    /\ input = NoInput
    /\ before = NoInput
    /\ result = NoResult
    /\ MapIdle
    /\ ButtonsNew
    /\ CommandsIdle
    /\ PureIdle

NextUpload ==
    \/ V2Upload
    \/ ProcessReturn

SpecUpload == InitUpload /\ [][NextUpload]_vars

\* One image, transformed call after call.
InitImage ==
    /\ ProtoIdle
    /\ MapIdle
    /\ ButtonsNew
    /\ CommandsIdle
    /\ current_device_pid = 99
    /\ display_buffer = ImageBuffer_new
    /\ upload = NoUpload
    /\ display_task = DisplayTaskNew
    /\ \E image \in Images :
         /\ call = [op |-> "image", image |-> image]
         /\ returned = [data |-> image.data, width |-> image.width,
                        height |-> image.height, times |-> 0]

NextImage ==
    \/ Rotate270
    \/ FlipHorizontal
    \/ FlipVertical
    \/ ApplyTransformations
    \/ Rgb888ToRgb565

SpecImage == InitImage /\ [][NextImage]_vars
====
